---- MODULE Spec2Model ----
(***************************************************************************)
(* Model of the UL timetable scraper (scraper.py): the HTML table          *)
(* extractor scrape_timetable, the calendar exporter export_to_ical and    *)
(* the grid renderer generate_timetable_image.                             *)
(*                                                                         *)
(* Text is modelled as a sequence of one-character strings so that         *)
(* stripping and the regular expressions are computed, not assumed.        *)
(***************************************************************************)
EXTENDS Integers, Sequences, FiniteSets, TLC

(***************************************************************************)
(* Bounds of the model.                                                    *)
(***************************************************************************)
MaxHeaders == 2
MaxRows == 2
MaxCells == 2
MaxFrags == 6

(***************************************************************************)
(* Text helpers.                                                           *)
(***************************************************************************)
None == <<"<None>">>

Digits == {"0", "1", "2", "3", "4", "5", "6", "7", "8", "9"}

Whitespace == {" ", "\n", "\t"}

DigitValue(c) ==
    CASE c = "0" -> 0 [] c = "1" -> 1 [] c = "2" -> 2 [] c = "3" -> 3
      [] c = "4" -> 4 [] c = "5" -> 5 [] c = "6" -> 6 [] c = "7" -> 7
      [] c = "8" -> 8 [] c = "9" -> 9

DigitChar(n) ==
    CASE n = 0 -> "0" [] n = 1 -> "1" [] n = 2 -> "2" [] n = 3 -> "3"
      [] n = 4 -> "4" [] n = 5 -> "5" [] n = 6 -> "6" [] n = 7 -> "7"
      [] n = 8 -> "8" [] n = 9 -> "9"

SeqsUpTo(S, n) == UNION {[1..k -> S] : k \in 0..n}

\* str.strip(): drop leading and trailing whitespace
Strip(s) ==
    LET solid == {i \in 1..Len(s) : s[i] \notin Whitespace}
    IN  IF solid = {} THEN <<>>
        ELSE LET lo == CHOOSE i \in solid : \A j \in solid : i <= j
                 hi == CHOOSE i \in solid : \A j \in solid : j <= i
             IN  SubSeq(s, lo, hi)

\* Tag.stripped_strings: the text nodes of a cell, stripped, empty ones dropped
RECURSIVE StrippedStrings(_)
StrippedStrings(nodes) ==
    IF nodes = <<>> THEN <<>>
    ELSE LET s == Strip(Head(nodes))
         IN  IF s = <<>> THEN StrippedStrings(Tail(nodes))
             ELSE <<s>> \o StrippedStrings(Tail(nodes))

(***************************************************************************)
(* Python dict with insertion order: a sequence of key/value records with  *)
(* pairwise distinct keys.                                                 *)
(***************************************************************************)
DictKeys(d) == {d[i].day : i \in 1..Len(d)}

DictGet(d, k) == LET i == CHOOSE j \in 1..Len(d) : d[j].day = k IN d[i].events

\* d[k] = v : a new key goes to the end, an existing key keeps its place
DictSet(d, k, v) ==
    IF k \in DictKeys(d)
    THEN [i \in 1..Len(d) |-> IF d[i].day = k THEN [day |-> k, events |-> v] ELSE d[i]]
    ELSE Append(d, [day |-> k, events |-> v])

\* d[k].append(e)
DictAppend(d, k, e) == DictSet(d, k, Append(DictGet(d, k), e))

(***************************************************************************)
(* scrape_timetable                                                        *)
(***************************************************************************)
TimetableId == "MainContent_StudentTimetableGridView"

NotFoundMessage == <<"Timetable table not found in the HTML content">>

ParseFailedPrefix == "Failed to parse timetable HTML: "

ErrorResult(msg) == [kind |-> "error", error |-> msg, timetable |-> <<>>]

TimetableResult(tt) == [kind |-> "timetable", error |-> <<>>, timetable |-> tt]

NoResult == [kind |-> "none", error |-> <<>>, timetable |-> <<>>]

\* soup.find("table"): the first table whatever its id
FindAnyTable(doc) == IF doc.tables = <<>> THEN 0 ELSE 1

\* soup.find("table", {"id": ...}): index of the first table with the id, 0 if none
FindTable(doc) ==
    LET hits == {i \in 1..Len(doc.tables) : doc.tables[i].id = TimetableId}
    IN  IF hits = {} THEN 0 ELSE CHOOSE i \in hits : \A j \in hits : i <= j

\* concatenation of a sequence of sequences
RECURSIVE Concat(_)
Concat(ss) == IF ss = <<>> THEN <<>> ELSE Head(ss) \o Concat(Tail(ss))

\* get_text() without strip=True
HeadersUnstripped(trs) == Concat([r \in 1..Len(trs) |-> trs[r].ths])

\* [th.get_text(strip=True) for th in table.find_all("th")]
Headers(trs) ==
    LET ths == Concat([r \in 1..Len(trs) |-> trs[r].ths])
    IN  [i \in 1..Len(ths) |-> Strip(ths[i])]

\* {day: [] for day in headers}
RECURSIVE EmptyLists(_)
EmptyLists(headers) ==
    IF headers = <<>> THEN <<>>
    ELSE DictSet(EmptyLists(SubSeq(headers, 1, Len(headers) - 1)),
                 headers[Len(headers)], <<>>)

\* the positional mapping with room and lecturer taken from each other's line
MakeEntrySwapped(cell_content) ==
    [time        |-> cell_content[1],
     course_code |-> IF Len(cell_content) > 1 THEN cell_content[2] ELSE None,
     lecturer    |-> IF Len(cell_content) > 3 THEN cell_content[4] ELSE None,
     room        |-> IF Len(cell_content) > 2 THEN cell_content[3] ELSE None,
     weeks       |-> IF Len(cell_content) > 4 THEN cell_content[5] ELSE None]

\* the entry dict built from the fragments of one cell
MakeEntry(cell_content) ==
    [time        |-> cell_content[1],
     course_code |-> IF Len(cell_content) > 1 THEN cell_content[2] ELSE None,
     lecturer    |-> IF Len(cell_content) > 2 THEN cell_content[3] ELSE None,
     room        |-> IF Len(cell_content) > 3 THEN cell_content[4] ELSE None,
     weeks       |-> IF Len(cell_content) > 4 THEN cell_content[5] ELSE None]

\* a loop body that drops a cell beyond the last header instead of faulting
ProcessCellTolerant(cell, i, headers, st) ==
    LET cell_content == StrippedStrings(cell)
    IN  IF cell_content = <<>> \/ i > Len(headers) THEN st
        ELSE [st EXCEPT !.timetable =
                 DictAppend(@, headers[i], MakeEntry(cell_content))]

\* body of the loop over the cells of a row; st.exc is the exception raised
ProcessCell(cell, i, headers, st) ==
    LET cell_content == StrippedStrings(cell)
    IN  IF cell_content = <<>> THEN st
        ELSE IF i > Len(headers)
             THEN [st EXCEPT !.exc = "list index out of range"]
             ELSE IF headers[i] \notin DictKeys(st.timetable)
                  THEN [st EXCEPT !.exc = "KeyError"]
                  ELSE [st EXCEPT !.timetable =
                           DictAppend(@, headers[i], MakeEntry(cell_content))]

\* for day_index, cell in enumerate(cells)
RECURSIVE ProcessCells(_, _, _, _)
ProcessCells(cells, i, headers, st) ==
    IF i > Len(cells) \/ st.exc # "" THEN st
    ELSE ProcessCells(cells, i + 1, headers, ProcessCell(cells[i], i, headers, st))

\* for row in rows
RECURSIVE ProcessRows(_, _, _)
ProcessRows(rows, headers, st) ==
    IF rows = <<>> \/ st.exc # "" THEN st
    ELSE ProcessRows(Tail(rows), headers,
                     ProcessCells(Head(rows).tds, 1, headers, st))

\* find_all("tr") without the [1:] slice
AllRows(trs) == trs

\* find_all("tr")[1:]
DataRows(trs) == IF trs = <<>> THEN <<>> ELSE Tail(trs)

scrape_timetable(doc) ==
    LET t == FindTable(doc)
    IN  IF t = 0 THEN ErrorResult(NotFoundMessage)
        ELSE LET trs == doc.tables[t].trs
                 headers == Headers(trs)
                 st == ProcessRows(DataRows(trs), headers,
                                   [timetable |-> EmptyLists(headers), exc |-> ""])
             IN  IF st.exc # ""
                 THEN ErrorResult(<<ParseFailedPrefix, st.exc>>)
                 ELSE TimetableResult(st.timetable)

(***************************************************************************)
(* HTML documents handed to scrape_timetable.                              *)
(***************************************************************************)
tMonday == <<"M","o","n","d","a","y">>
tTuesday == <<"T","u","e","s","d","a","y">>
tWednesday == <<"W","e","d","n","e","s","d","a","y">>
tThursday == <<"T","h","u","r","s","d","a","y">>
tFriday == <<"F","r","i","d","a","y">>
tSaturday == <<"S","a","t","u","r","d","a","y">>
tSunday == <<"S","u","n","d","a","y">>
tLab == <<"L","a","b">>

tCS101 == <<"C","S","1","0","1">>
tCS102 == <<"C","S","1","0","2">>
tSmith == <<"D","r","."," ","S","m","i","t","h">>
tJones == <<"D","r","."," ","J","o","n","e","s">>
tRoomA1 == <<"R","o","o","m"," ","A","1">>
tRoomB2 == <<"R","o","o","m"," ","B","2">>
tWeeks1to12 == <<"W","e","e","k","s"," ","1","-","1","2">>
t9to10 == <<"9",":","0","0"," ","-"," ","1","0",":","0","0">>
t11to12 == <<"1","1",":","0","0"," ","-"," ","1","2",":","0","0">>

\* the two cells of test_scrape_timetable, one text node per <br>-separated line
CellCS101 == <<t9to10, tCS101, tSmith, tRoomA1, tWeeks1to12>>
CellCS102 == <<t11to12, tCS102, tJones, tRoomB2, tWeeks1to12>>
\* <td> 9:00 - 10:00 </td>
CellTimeOnly == << <<" ">> \o t9to10 \o <<"\n">> >>
\* <td></td>
CellEmpty == <<>>
\* <td> <br> </td>
CellBlank == << <<" ">>, <<"\n", " ">> >>

RawHeaders == {<<" ">> \o tMonday \o <<" ">>, tLab}

WideCells == {CellEmpty, CellCS101, CellTimeOnly}

RECURSIVE CountCells(_)
CountCells(rows) == IF rows = <<>> THEN 0 ELSE Len(Head(rows).tds) + CountCells(Tail(rows))

HeaderRow(ths, tds) == [ths |-> ths, tds |-> tds]

DataRow(tds) == [ths |-> <<>>, tds |-> tds]

\* tables with a header row and up to MaxRows data rows holding up to MaxCells
\* td cells in all
WideTables ==
    {[id |-> TimetableId, trs |-> <<HeaderRow(ths, <<>>)>> \o rows] :
        ths \in SeqsUpTo(RawHeaders, MaxHeaders),
        rows \in {rs \in SeqsUpTo({DataRow(c) : c \in SeqsUpTo(WideCells, MaxCells)}, MaxRows) :
                     CountCells(rs) <= MaxCells}}

\* text node number i of a deep cell, padded with whitespace
Frag(i) == <<" ", "f", DigitChar(i), "\n">>

\* one-cell tables whose cell has up to MaxFrags text fragments, with a
\* whitespace-only node at any one place
DeepCells ==
    {[i \in 1..k |-> Frag(i)] : k \in 0..MaxFrags}
    \cup {[i \in 1..(k + 1) |-> IF i < b THEN Frag(i)
                                 ELSE IF i = b THEN <<" ">> ELSE Frag(i - 1)] :
            k \in 0..MaxFrags, b \in 1..(MaxFrags + 1)}

DeepTables ==
    {[id |-> TimetableId,
      trs |-> <<HeaderRow(<<tMonday>>, <<>>), DataRow(<<c>>)>>] : c \in DeepCells \cup {CellBlank}}

\* tables with th elements outside the first row, tables with a td cell in the
\* first row, and a table with no row at all
OddTables ==
    {[id |-> TimetableId,
      trs |-> <<HeaderRow(<<tMonday>>, first), [ths |-> late, tds |-> tds]>>] :
        first \in {<<>>, <<CellCS102>>},
        late \in {<<>>, <<tLab>>},
        tds \in SeqsUpTo(WideCells, MaxCells)}
    \cup {[id |-> TimetableId, trs |-> <<>>]}

\* the table of test_scrape_timetable
TestTable ==
    [id |-> TimetableId,
     trs |-> <<HeaderRow(<<tMonday, tTuesday>>, <<>>), DataRow(<<CellCS101, CellCS102>>)>>]

OtherTable ==
    [id |-> "OtherGridView",
     trs |-> <<HeaderRow(<<tMonday, tTuesday>>, <<>>), DataRow(<<CellCS101, CellCS102>>)>>]

Docs ==
    {[tables |-> <<t>>] : t \in WideTables \cup DeepTables \cup OddTables \cup {TestTable}}
    \cup {[tables |-> <<OtherTable, t>>] : t \in DeepTables}
    \cup {[tables |-> <<>>], [tables |-> <<OtherTable>>], [tables |-> <<OtherTable, OtherTable>>]}

(***************************************************************************)
(* Regular expressions of the schedule expansion.                          *)
(***************************************************************************)
\* character i of s, "" beyond the end
At(s, i) == IF i >= 1 /\ i <= Len(s) THEN s[i] ELSE ""

\* number of consecutive digits of s from position i on
RECURSIVE DigitRun(_, _)
DigitRun(s, i) == IF At(s, i) \in Digits THEN 1 + DigitRun(s, i + 1) ELSE 0

\* first position from i on that holds no whitespace (\s*)
RECURSIVE SkipSpace(_, _)
SkipSpace(s, i) == IF At(s, i) \in Whitespace THEN SkipSpace(s, i + 1) ELSE i

\* int() of the digits s[i..j]
RECURSIVE ToInt(_, _, _)
ToInt(s, i, j) == IF j < i THEN 0 ELSE 10 * ToInt(s, i, j - 1) + DigitValue(s[j])

\* \d{1,2}:\d{2} at position i: <<hour, minute, next position>>, <<>> if no match
HourMinute(s, i) ==
    LET n == IF DigitRun(s, i) >= 2 THEN 2 ELSE DigitRun(s, i)
    IN  IF n >= 1 /\ At(s, i + n) = ":" /\ DigitRun(s, i + n + 1) >= 2
        THEN <<ToInt(s, i, i + n - 1), ToInt(s, i + n + 1, i + n + 2), i + n + 3>>
        ELSE <<>>

\* re.match(r"(\d{1,2}):(\d{2})\s*-\s*(\d{1,2}):(\d{2})", s) and map(int, groups):
\* <<start_hour, start_min, end_hour, end_min>>, <<>> when there is no match
TimeMatch(s) ==
    LET a == HourMinute(s, 1)
    IN  IF a = <<>> THEN <<>>
        ELSE LET d == SkipSpace(s, a[3])
             IN  IF At(s, d) # "-" THEN <<>>
                 ELSE LET b == HourMinute(s, SkipSpace(s, d + 1))
                      IN  IF b = <<>> THEN <<>> ELSE <<a[1], a[2], b[1], b[2]>>

\* (\d+)-(\d+) matched at position i exactly
WeeksMatchAt(s, i) ==
    LET n == DigitRun(s, i)
    IN  n >= 1 /\ At(s, i + n) = "-" /\ DigitRun(s, i + n + 1) >= 1

\* re.search(r"(\d+)-(\d+)", s): <<start_week, end_week>> of the first match,
\* <<>> when there is none
WeeksSearch(s) ==
    LET hits == {i \in 1..Len(s) : WeeksMatchAt(s, i)}
    IN  IF hits = {} THEN <<>>
        ELSE LET i == CHOOSE k \in hits : \A j \in hits : k <= j
                 n == DigitRun(s, i)
             IN  <<ToInt(s, i, i + n - 1),
                   ToInt(s, i + n + 1, i + n + DigitRun(s, i + n + 1))>>

(***************************************************************************)
(* export_to_ical: the work done for one entry.                            *)
(***************************************************************************)
\* day_map
day_map ==
    (tMonday :> 0) @@ (tTuesday :> 1) @@ (tWednesday :> 2) @@ (tThursday :> 3)
    @@ (tFriday :> 4) @@ (tSaturday :> 5) @@ (tSunday :> 6)

\* count of the weekly recurrence of an entry without a week range
DefaultCount == 12

\* a datetime: day number and time of day
DateTime(day, hour, minute) == [day |-> day, hour |-> hour, minute |-> minute]

\* a replace() that takes any hour and minute
ValidTimeAny(hour, minute) == hour >= 0 /\ minute >= 0

\* datetime.replace(hour=, minute=) accepts the values
ValidTime(hour, minute) == hour \in 0..23 /\ minute \in 0..59

\* Python truthiness of a str-or-None field
Truthy(x) == x # None /\ x # <<>>

\* semester_start_date + timedelta(days=weekday)
EventDate(semester_start, weekday) == semester_start + weekday

\* a range that counts down where the end lies before the start
WeekRangeEitherWay(start_week, end_week) ==
    IF end_week >= start_week
    THEN [i \in 1..(end_week - start_week + 1) |-> start_week + i - 1]
    ELSE [i \in 1..(start_week - end_week + 1) |-> start_week - i + 1]

\* range(start_week, end_week + 1)
WeekRange(start_week, end_week) ==
    [i \in 1..(end_week - start_week + 1) |-> start_week + i - 1]

\* timedelta(days=week_num * 7): week 1 shifted by a week
WeekOffsetFromZero(week_num) == week_num * 7

\* timedelta(days=(week_num - 1) * 7)
WeekOffset(week_num) == (week_num - 1) * 7

\* the VEVENT of one week of a ranged entry
WeekEvent(event, event_date, t, week_num) ==
    [summary     |-> event.course_code,
     description |-> [lecturer |-> IF Truthy(event.lecturer) THEN event.lecturer ELSE None,
                      week |-> week_num],
     location    |-> event.room,
     dtstart     |-> DateTime(event_date + WeekOffset(week_num), t[1], t[2]),
     dtend       |-> DateTime(event_date + WeekOffset(week_num), t[3], t[4]),
     rrule       |-> 0]

\* the recurring VEVENT of an entry without a week range
RecurringEvent(event, event_date, t) ==
    [summary     |-> event.course_code,
     description |-> [lecturer |-> IF Truthy(event.lecturer) THEN event.lecturer ELSE None,
                      week |-> 0],
     location    |-> event.room,
     dtstart     |-> DateTime(event_date, t[1], t[2]),
     dtend       |-> DateTime(event_date, t[3], t[4]),
     rrule       |-> DefaultCount]

\* event.get("weeks", ""): the key is always present, so None is returned as is
WeeksField(event) == event.weeks

\* the loop body with a silent `continue` where the time does not match
IcalEventBadTimeSilent(event, event_date) ==
    LET none == [outcome |-> "skip", comps |-> <<>>, exc |-> ""]
    IN  IF ~Truthy(event.course_code) THEN none
        ELSE LET t == TimeMatch(event.time)
             IN  IF t = <<>> THEN none
                 ELSE IF ~ValidTime(t[1], t[2]) \/ ~ValidTime(t[3], t[4])
                 THEN [none EXCEPT !.outcome = "raise", !.exc = "ValueError"]
                 ELSE IF WeeksField(event) = None
                 THEN [none EXCEPT !.outcome = "raise", !.exc = "TypeError"]
                 ELSE LET w == WeeksSearch(WeeksField(event))
                      IN  IF w # <<>>
                          THEN LET weeks == WeekRange(w[1], w[2])
                               IN  [none EXCEPT !.outcome = "add",
                                       !.comps = [i \in 1..Len(weeks) |->
                                           WeekEvent(event, event_date, t, weeks[i])]]
                          ELSE [none EXCEPT !.outcome = "add",
                                   !.comps = <<RecurringEvent(event, event_date, t)>>]

\* the body of `for event in events`: what happens to one entry.
\*   skip   the entry is passed over silently
\*   warn   the entry is passed over with a warning
\*   raise  an exception leaves the loop (exc names it)
\*   add    the components comps are added to the calendar
IcalEvent(event, event_date) ==
    LET none == [outcome |-> "skip", comps |-> <<>>, exc |-> ""]
    IN  IF ~Truthy(event.course_code) THEN none
        ELSE LET t == TimeMatch(event.time)
             IN  IF t = <<>> THEN [none EXCEPT !.outcome = "warn"]
                 ELSE IF ~ValidTime(t[1], t[2]) \/ ~ValidTime(t[3], t[4])
                 THEN [none EXCEPT !.outcome = "raise", !.exc = "ValueError"]
                 ELSE IF WeeksField(event) = None
                 THEN [none EXCEPT !.outcome = "raise", !.exc = "TypeError"]
                 ELSE LET w == WeeksSearch(WeeksField(event))
                      IN  IF w # <<>>
                          THEN LET weeks == WeekRange(w[1], w[2])
                               IN  [none EXCEPT !.outcome = "add",
                                       !.comps = [i \in 1..Len(weeks) |->
                                           WeekEvent(event, event_date, t, weeks[i])]]
                          ELSE [none EXCEPT !.outcome = "add",
                                   !.comps = <<RecurringEvent(event, event_date, t)>>]

(***************************************************************************)
(* generate_timetable_image: the work done for one entry.  Times of day    *)
(* are minutes since midnight (the code's hours as floats, times 60).      *)
(***************************************************************************)
\* number of colours in the palette of every theme
PaletteSize == 9

\* the drawn window, 9 and 18 o'clock
WindowStart == 9 * 60
WindowEnd == 18 * 60

Max(a, b) == IF a >= b THEN a ELSE b
Min(a, b) == IF a <= b THEN a ELSE b

\* [day for day, events in timetable.items() if events]
ImageDays(tt) == SelectSeq(tt, LAMBDA d : d.events # <<>>)

\* the loop body without the `if not event.get("course_code")` test
ImageEventNoCourseTest(event) ==
    LET none == [outcome |-> "skip", start_time |-> 0, end_time |-> 0]
        t == TimeMatch(event.time)
    IN  IF t = <<>> THEN [none EXCEPT !.outcome = "warn"]
        ELSE LET start_time == t[1] * 60 + t[2]
                 end_time == t[3] * 60 + t[4]
             IN  IF end_time < WindowStart \/ start_time > WindowEnd
                 THEN [none EXCEPT !.outcome = "outside"]
                 ELSE [outcome |-> "draw",
                       start_time |-> Max(start_time, WindowStart),
                       end_time |-> Min(end_time, WindowEnd)]

\* the loop body without the two clipping assignments
ImageEventNoClip(event) ==
    LET none == [outcome |-> "skip", start_time |-> 0, end_time |-> 0]
    IN  IF ~Truthy(event.course_code) THEN none
        ELSE LET t == TimeMatch(event.time)
             IN  IF t = <<>> THEN [none EXCEPT !.outcome = "warn"]
                 ELSE LET start_time == t[1] * 60 + t[2]
                          end_time == t[3] * 60 + t[4]
                      IN  IF end_time < WindowStart \/ start_time > WindowEnd
                          THEN [none EXCEPT !.outcome = "outside"]
                          ELSE [outcome |-> "draw",
                                start_time |-> start_time,
                                end_time |-> end_time]

\* the body of `for event in events`: what happens to one entry.
\*   skip     the entry is passed over silently (no course code)
\*   warn     the entry is passed over with a warning (time not matched)
\*   outside  the entry lies outside the window and is not drawn
\*   draw     a block from start_time to end_time is drawn
ImageEvent(event) ==
    LET none == [outcome |-> "skip", start_time |-> 0, end_time |-> 0]
    IN  IF ~Truthy(event.course_code) THEN none
        ELSE LET t == TimeMatch(event.time)
             IN  IF t = <<>> THEN [none EXCEPT !.outcome = "warn"]
                 ELSE LET start_time == t[1] * 60 + t[2]
                          end_time == t[3] * 60 + t[4]
                      IN  IF end_time < WindowStart \/ start_time > WindowEnd
                          THEN [none EXCEPT !.outcome = "outside"]
                          ELSE [outcome |-> "draw",
                                start_time |-> Max(start_time, WindowStart),
                                end_time |-> Min(end_time, WindowEnd)]

\* rooms: the dict from room to colour, in insertion order
RoomKeys(rooms) == {rooms[i].room : i \in 1..Len(rooms)}

RoomColor(rooms, room) ==
    LET i == CHOOSE j \in 1..Len(rooms) : rooms[j].room = room IN rooms[i].color

(***************************************************************************)
(* Timetables handed to the consumers.                                     *)
(***************************************************************************)
MaxEvents == 2

tWeeks3to5 == <<"W","e","e","k","s"," ","3","-","5">>
tWeeks12to1 == <<"W","e","e","k","s"," ","1","2","-","1">>
tAllWeeks == <<"A","l","l"," ","w","e","e","k","s">>
tTBA == <<"T","B","A">>
t25to26 == <<"2","5",":","0","0"," ","-"," ","2","6",":","0","0">>
t1430to1530 == <<"1","4",":","3","0","-","1","5",":","3","0">>
t830to1830 == <<"8",":","3","0"," ","-"," ","1","8",":","3","0">>
t19to20 == <<"1","9",":","0","0"," ","-"," ","2","0",":","0","0">>
t17to10 == <<"1","7",":","0","0"," ","-"," ","1","0",":","0","0">>
t12to8 == <<"1","2",":","0","0"," ","-"," ","8",":","0","0">>
tWeeks0to1 == <<"W","e","e","k","s"," ","0","-","1">>
tWeeks5to5 == <<"W","e","e","k","s"," ","5","-","5">>
tYearWeeks == <<"2","0","2","4","-","2","5"," ","W","e","e","k","s"," ","1","-","1","2">>

\* the day numbers the semester may start on (day 0 is a Monday)
SemesterStarts == {7}

\* entries as scrape_timetable builds them, and one with an empty course code
IcalEntries ==
    {MakeEntry(<<t830to1830, tCS102, tJones, tRoomB2, tAllWeeks>>),
     MakeEntry(<<t19to20, tCS101, tSmith, tRoomA1, tWeeks3to5>>),
     MakeEntry(<<t1430to1530, tCS102, tJones, tRoomB2, tWeeks12to1>>),
     MakeEntry(<<t9to10, tCS101>>),
     MakeEntry(<<t9to10>>),
     MakeEntry(<<t25to26>>),
     MakeEntry(<<tTBA, tCS102, tJones, tRoomB2, tWeeks1to12>>),
     MakeEntry(<<t25to26, tCS101, tSmith, tRoomA1, tWeeks1to12>>),
     [MakeEntry(<<tTBA, tCS101, tSmith, tRoomA1, tWeeks1to12>>) EXCEPT !.course_code = <<>>]}

\* the key lists of the timetables: recognised days, a header that is no day
\* name alone and before a day, and two recognised days
KeyLists ==
    {<<>>, <<tWednesday>>, <<tLab>>, <<tLab, tWednesday>>, <<tMonday, tWednesday>>}

RECURSIVE SumLen(_)
SumLen(ss) == IF ss = <<>> THEN 0 ELSE Len(Head(ss)) + SumLen(Tail(ss))

\* dicts over the key lists holding up to MaxEvents entries in all
TimetablesOver(entries) ==
    UNION {{[i \in 1..Len(ks) |-> [day |-> ks[i], events |-> evs[i]]] :
              evs \in {e \in [1..Len(ks) -> SeqsUpTo(entries, MaxEvents)] :
                          SumLen(e) <= MaxEvents}} :
           ks \in KeyLists}

(***************************************************************************)
(* State.                                                                  *)
(***************************************************************************)
VARIABLES
    pc,                   \* which function is running and where it stands
    html_content,         \* argument of scrape_timetable
    result,               \* return value of scrape_timetable
    timetable,            \* the dict handed to export_to_ical
    semester_start_date,  \* day number of the semester start
    ical_day,             \* export_to_ical: number of timetable items taken
    ical_ev,              \* export_to_ical: number of entries of the day taken
    cal,                  \* export_to_ical: components of the Calendar object
    log,                  \* records written to the logger
    ics_file,             \* the output file of export_to_ical
    ical_ret,             \* return value of export_to_ical
    img_day,              \* generate_timetable_image: number of days taken
    img_ev,               \* generate_timetable_image: number of entries of the day taken
    rooms,                \* generate_timetable_image: room -> colour
    current_color,        \* generate_timetable_image: colours handed out
    patches,              \* generate_timetable_image: blocks drawn on the axes
    png_file,             \* the output file of generate_timetable_image
    args,                 \* main: the parsed command line
    environ,              \* main: os.environ, the two variables main reads
    creds_data,           \* main: what reading the credentials file gives
    username,             \* main: the user name handed to the login page
    password,             \* main: the password handed to the login page
    calls,                \* the browser steps and functions run so far, in order
    json_file,            \* the output file of save_timetable
    exit_code             \* return value of main; -1 while it runs

scrapeVars == <<html_content, result>>

icalVars == <<timetable, semester_start_date, ical_day, ical_ev, cal, ics_file, ical_ret>>

imageVars == <<img_day, img_ev, rooms, current_color, patches, png_file>>

mainVars == <<args, environ, creds_data, username, password, calls, json_file, exit_code>>

vars == <<pc, scrapeVars, icalVars, imageVars, mainVars, log>>

NoFile == [exists |-> FALSE, components |-> <<>>]

IcalIdle ==
    /\ ical_day = 0
    /\ ical_ev = 0
    /\ cal = <<>>
    /\ ics_file = NoFile
    /\ ical_ret = ""

ImageIdle ==
    /\ img_day = 0
    /\ img_ev = 0
    /\ rooms = <<>>
    /\ current_color = 0
    /\ patches = <<>>
    /\ png_file = NoFile

ScrapeIdle ==
    /\ html_content = [tables |-> <<>>]
    /\ result = NoResult

\* an absent value (None) and the empty string, which Python both takes as false
NoValue == ""

NoArgs ==
    [username |-> NoValue, password |-> NoValue, creds_file |-> FALSE, output |-> FALSE,
     image |-> FALSE, export_calendar |-> FALSE, semester_start |-> NoValue]

MainIdle ==
    /\ args = NoArgs
    /\ environ = [UL_USERNAME |-> NoValue, UL_PASSWORD |-> NoValue]
    /\ creds_data = [readable |-> FALSE, username |-> NoValue, password |-> NoValue]
    /\ username = NoValue
    /\ password = NoValue
    /\ calls = <<>>
    /\ json_file = NoFile
    /\ exit_code = -1

(***************************************************************************)
(* Extraction: one call of scrape_timetable on an arbitrary document.      *)
(***************************************************************************)
InitScrape ==
    /\ pc = "scrape"
    /\ html_content \in Docs
    /\ result = NoResult
    /\ log = <<>>
    /\ timetable = <<>>
    /\ semester_start_date = 0
    /\ IcalIdle
    /\ ImageIdle
    /\ MainIdle

Scrape ==
    /\ pc = "scrape"
    /\ result' = scrape_timetable(html_content)
    /\ pc' = "scraped"
    /\ UNCHANGED <<html_content, icalVars, imageVars, log>>
    /\ UNCHANGED mainVars

NextScrape == Scrape

SpecScrape == InitScrape /\ [][NextScrape]_vars

(***************************************************************************)
(* The consumers of a timetable, as main runs them when both are asked     *)
(* for: the image, then the calendar export.  One step per loop turn of    *)
(* generate_timetable_image and of export_to_ical.                         *)
(***************************************************************************)
InitConsumers ==
    /\ pc = "image"
    /\ timetable \in TimetablesOver(IcalEntries)
    /\ semester_start_date \in SemesterStarts
    /\ log = <<>>
    /\ IcalIdle
    /\ ImageIdle
    /\ ScrapeIdle
    /\ MainIdle

\* `if not days: error; return`
ImageNoDays ==
    /\ pc = "image"
    /\ ImageDays(timetable) = <<>>
    /\ log' = Append(log, [level |-> "ERROR", text |-> "No days with events found",
                           about |-> <<>>])
    /\ pc' = "image_done"
    /\ UNCHANGED <<scrapeVars, icalVars, imageVars>>
    /\ UNCHANGED mainVars

\* for day_index, day in enumerate(days): the next day
ImageEnterDay ==
    /\ pc = "image"
    /\ img_day < Len(ImageDays(timetable))
    /\ img_day' = img_day + 1
    /\ img_ev' = 0
    /\ pc' = "image_events"
    /\ UNCHANGED <<scrapeVars, icalVars, rooms, current_color, patches, png_file, log>>
    /\ UNCHANGED mainVars

\* the entry the event loop takes next, and what the loop body does with it
ImageCurrent == ImageDays(timetable)[img_day].events[img_ev + 1]

ImageOutcome == ImageEvent(ImageCurrent)

ImageAtEvent ==
    pc = "image_events" /\ img_ev < Len(ImageDays(timetable)[img_day].events)

\* `if not event.get("course_code"): continue`
ImageSkipEvent ==
    /\ ImageAtEvent
    /\ ImageOutcome.outcome = "skip"
    /\ img_ev' = img_ev + 1
    /\ UNCHANGED <<pc, scrapeVars, icalVars, img_day, rooms, current_color, patches,
                   png_file, log>>
    /\ UNCHANGED mainVars

\* `if not time_match: warning; continue`
ImageBadTime ==
    /\ ImageAtEvent
    /\ ImageOutcome.outcome = "warn"
    /\ log' = Append(log, [level |-> "WARNING", text |-> "Could not parse time format",
                           about |-> ImageCurrent.time])
    /\ img_ev' = img_ev + 1
    /\ UNCHANGED <<pc, scrapeVars, icalVars, img_day, rooms, current_color, patches,
                   png_file>>
    /\ UNCHANGED mainVars

\* `if end_time < 9 or start_time > 18: continue`
ImageOutside ==
    /\ ImageAtEvent
    /\ ImageOutcome.outcome = "outside"
    /\ img_ev' = img_ev + 1
    /\ UNCHANGED <<pc, scrapeVars, icalVars, img_day, rooms, current_color, patches,
                   png_file, log>>
    /\ UNCHANGED mainVars

\* the block is drawn with `colors[current_color]`, without the modulo
ImageDrawNoWrap ==
    /\ ImageAtEvent
    /\ ImageOutcome.outcome = "draw"
    /\ LET room == ImageCurrent.room
           isNew == room \notin RoomKeys(rooms)
           rooms1 == IF isNew
                     THEN Append(rooms, [room |-> room, color |-> current_color])
                     ELSE rooms
       IN  /\ rooms' = rooms1
           /\ current_color' = IF isNew THEN current_color + 1 ELSE current_color
           /\ patches' = Append(patches,
                  [day_index |-> img_day - 1,
                   start_time |-> ImageOutcome.start_time,
                   end_time |-> ImageOutcome.end_time,
                   color |-> RoomColor(rooms1, room),
                   room |-> room,
                   course_code |-> ImageCurrent.course_code,
                   origin |-> [day |-> ImageDays(timetable)[img_day].day,
                               index |-> img_ev + 1]])
    /\ img_ev' = img_ev + 1
    /\ UNCHANGED <<pc, scrapeVars, icalVars, img_day, png_file, log>>
    /\ UNCHANGED mainVars

\* the room gets a colour if it is new, and the block is drawn; origin
\* records the entry a block was drawn for (not part of the image)
ImageDraw ==
    /\ ImageAtEvent
    /\ ImageOutcome.outcome = "draw"
    /\ LET room == ImageCurrent.room
           isNew == room \notin RoomKeys(rooms)
           rooms1 == IF isNew
                     THEN Append(rooms, [room |-> room, color |-> current_color % PaletteSize])
                     ELSE rooms
       IN  /\ rooms' = rooms1
           /\ current_color' = IF isNew THEN current_color + 1 ELSE current_color
           /\ patches' = Append(patches,
                  [day_index |-> img_day - 1,
                   start_time |-> ImageOutcome.start_time,
                   end_time |-> ImageOutcome.end_time,
                   color |-> RoomColor(rooms1, room),
                   room |-> room,
                   course_code |-> ImageCurrent.course_code,
                   origin |-> [day |-> ImageDays(timetable)[img_day].day,
                               index |-> img_ev + 1]])
    /\ img_ev' = img_ev + 1
    /\ UNCHANGED <<pc, scrapeVars, icalVars, img_day, png_file, log>>
    /\ UNCHANGED mainVars

\* the entries of the day are exhausted
ImageEndDay ==
    /\ pc = "image_events"
    /\ img_ev = Len(ImageDays(timetable)[img_day].events)
    /\ pc' = "image"
    /\ UNCHANGED <<scrapeVars, icalVars, imageVars, log>>
    /\ UNCHANGED mainVars

\* axes, legend, plt.savefig(...)
ImageSave ==
    /\ pc = "image"
    /\ ImageDays(timetable) # <<>>
    /\ img_day = Len(ImageDays(timetable))
    /\ png_file' = [exists |-> TRUE, components |-> patches]
    /\ log' = Append(log, [level |-> "SUCCESS", text |-> "Timetable image saved",
                           about |-> <<>>])
    /\ pc' = "image_done"
    /\ UNCHANGED <<scrapeVars, icalVars, img_day, img_ev, rooms, current_color, patches>>
    /\ UNCHANGED mainVars

\* laying out or saving the figure fails: `except Exception`, error logged
ImageSaveFails ==
    /\ pc = "image"
    /\ ImageDays(timetable) # <<>>
    /\ img_day = Len(ImageDays(timetable))
    /\ log' = Append(log, [level |-> "ERROR", text |-> "Failed to generate timetable image",
                           about |-> <<>>])
    /\ pc' = "image_done"
    /\ UNCHANGED <<scrapeVars, icalVars, imageVars>>
    /\ UNCHANGED mainVars

\* main: `if args.export_calendar:` after the image
StartExport ==
    /\ pc = "image_done"
    /\ pc' = "ical_days"
    /\ UNCHANGED <<scrapeVars, icalVars, imageVars, log>>
    /\ UNCHANGED mainVars

\* for day, events in timetable.items(): `if not events: continue`
IcalEmptyDay ==
    /\ pc = "ical_days"
    /\ ical_day < Len(timetable)
    /\ timetable[ical_day + 1].events = <<>>
    /\ ical_day' = ical_day + 1
    /\ UNCHANGED <<pc, scrapeVars, imageVars, timetable, semester_start_date, ical_ev, cal,
                   ics_file, ical_ret, log>>
    /\ UNCHANGED mainVars

\* without the `if day not in day_map` test: day_map[day] raises KeyError
IcalUnknownDayRaises ==
    /\ pc = "ical_days"
    /\ ical_day < Len(timetable)
    /\ timetable[ical_day + 1].events # <<>>
    /\ timetable[ical_day + 1].day \notin DOMAIN day_map
    /\ log' = Append(log, [level |-> "ERROR", text |-> "Failed to export calendar",
                           about |-> <<"KeyError">>])
    /\ ical_day' = ical_day + 1
    /\ ical_ret' = "None"
    /\ pc' = "ical_done"
    /\ UNCHANGED <<scrapeVars, imageVars, timetable, semester_start_date, ical_ev, cal,
                   ics_file>>
    /\ UNCHANGED mainVars

\* `if day not in day_map: warning; continue`
IcalUnknownDay ==
    /\ pc = "ical_days"
    /\ ical_day < Len(timetable)
    /\ timetable[ical_day + 1].events # <<>>
    /\ timetable[ical_day + 1].day \notin DOMAIN day_map
    /\ log' = Append(log, [level |-> "WARNING", text |-> "Unknown day",
                           about |-> timetable[ical_day + 1].day])
    /\ ical_day' = ical_day + 1
    /\ UNCHANGED <<pc, scrapeVars, imageVars, timetable, semester_start_date, ical_ev, cal,
                   ics_file, ical_ret>>
    /\ UNCHANGED mainVars

\* a recognised day: enter `for event in events`
IcalEnterDay ==
    /\ pc = "ical_days"
    /\ ical_day < Len(timetable)
    /\ timetable[ical_day + 1].events # <<>>
    /\ timetable[ical_day + 1].day \in DOMAIN day_map
    /\ ical_day' = ical_day + 1
    /\ ical_ev' = 0
    /\ pc' = "ical_events"
    /\ UNCHANGED <<scrapeVars, imageVars, timetable, semester_start_date, cal, ics_file,
                   ical_ret, log>>
    /\ UNCHANGED mainVars

\* the entry the event loop takes next, and what the loop body does with it
IcalCurrent == timetable[ical_day].events[ical_ev + 1]

IcalOutcome ==
    IcalEvent(IcalCurrent,
              EventDate(semester_start_date, day_map[timetable[ical_day].day]))

IcalAtEvent == pc = "ical_events" /\ ical_ev < Len(timetable[ical_day].events)

\* `if not event.get("course_code"): continue`
IcalSkipEvent ==
    /\ IcalAtEvent
    /\ IcalOutcome.outcome = "skip"
    /\ ical_ev' = ical_ev + 1
    /\ UNCHANGED <<pc, scrapeVars, imageVars, timetable, semester_start_date, ical_day, cal,
                   ics_file, ical_ret, log>>
    /\ UNCHANGED mainVars

\* `if not time_match: warning; continue`
IcalBadTime ==
    /\ IcalAtEvent
    /\ IcalOutcome.outcome = "warn"
    /\ log' = Append(log, [level |-> "WARNING", text |-> "Could not parse time format",
                           about |-> IcalCurrent.time])
    /\ ical_ev' = ical_ev + 1
    /\ UNCHANGED <<pc, scrapeVars, imageVars, timetable, semester_start_date, ical_day, cal,
                   ics_file, ical_ret>>
    /\ UNCHANGED mainVars

\* the entry's components go to the calendar, each with a fresh uid; origin
\* records the entry a component was made for (not part of the file)
IcalAddEvents ==
    /\ IcalAtEvent
    /\ IcalOutcome.outcome = "add"
    /\ cal' = cal \o [i \in 1..Len(IcalOutcome.comps) |->
                        [vevent |-> IcalOutcome.comps[i],
                         uid |-> Len(cal) + i,
                         origin |-> [day |-> timetable[ical_day].day,
                                     index |-> ical_ev + 1]]]
    /\ ical_ev' = ical_ev + 1
    /\ UNCHANGED <<pc, scrapeVars, imageVars, timetable, semester_start_date, ical_day,
                   ics_file, ical_ret, log>>
    /\ UNCHANGED mainVars

\* an exception in the loop body reaches `except Exception`: return None
IcalRaise ==
    /\ IcalAtEvent
    /\ IcalOutcome.outcome = "raise"
    /\ log' = Append(log, [level |-> "ERROR", text |-> "Failed to export calendar",
                           about |-> <<IcalOutcome.exc>>])
    /\ ical_ret' = "None"
    /\ pc' = "ical_done"
    /\ UNCHANGED <<scrapeVars, imageVars, timetable, semester_start_date, ical_day, ical_ev,
                   cal, ics_file>>
    /\ UNCHANGED mainVars

\* the entries of the day are exhausted
IcalEndDay ==
    /\ pc = "ical_events"
    /\ ical_ev = Len(timetable[ical_day].events)
    /\ pc' = "ical_days"
    /\ UNCHANGED <<scrapeVars, imageVars, icalVars, log>>
    /\ UNCHANGED mainVars

\* the days are exhausted
IcalEndDays ==
    /\ pc = "ical_days"
    /\ ical_day = Len(timetable)
    /\ pc' = "ical_write"
    /\ UNCHANGED <<scrapeVars, imageVars, icalVars, log>>
    /\ UNCHANGED mainVars

\* open(output_file, 'wb'); f.write(cal.to_ical()); return output_file
IcalWrite ==
    /\ pc = "ical_write"
    /\ ics_file' = [exists |-> TRUE, components |-> cal]
    /\ log' = Append(log, [level |-> "SUCCESS", text |-> "Calendar exported",
                           about |-> <<>>])
    /\ ical_ret' = "output_file"
    /\ pc' = "ical_done"
    /\ UNCHANGED <<scrapeVars, imageVars, timetable, semester_start_date, ical_day, ical_ev, cal>>
    /\ UNCHANGED mainVars

\* open() fails (OSError): `except Exception`, return None
IcalWriteFails ==
    /\ pc = "ical_write"
    /\ log' = Append(log, [level |-> "ERROR", text |-> "Failed to export calendar",
                           about |-> <<"OSError">>])
    /\ ical_ret' = "None"
    /\ pc' = "ical_done"
    /\ UNCHANGED <<scrapeVars, imageVars, timetable, semester_start_date, ical_day, ical_ev,
                   cal, ics_file>>
    /\ UNCHANGED mainVars

NextConsumers ==
    \/ ImageNoDays
    \/ ImageEnterDay
    \/ ImageSkipEvent
    \/ ImageBadTime
    \/ ImageOutside
    \/ ImageDraw
    \/ ImageEndDay
    \/ ImageSave
    \/ ImageSaveFails
    \/ StartExport
    \/ IcalEmptyDay
    \/ IcalUnknownDay
    \/ IcalEnterDay
    \/ IcalSkipEvent
    \/ IcalBadTime
    \/ IcalAddEvents
    \/ IcalRaise
    \/ IcalEndDay
    \/ IcalEndDays
    \/ IcalWrite
    \/ IcalWriteFails

SpecConsumers == InitConsumers /\ [][NextConsumers]_vars

(***************************************************************************)
(* One call of generate_timetable_image, also on timetables with more      *)
(* rooms than the palette has colours.                                     *)
(***************************************************************************)
MaxRooms == 10

RoomName(i) == <<"R", DigitChar(i \div 10), DigitChar(i % 10)>>

\* an entry in room number r, inside the drawn window or after it
LongEntry(r, inside) ==
    MakeEntry(<<IF inside THEN t9to10 ELSE t19to20, tCS101, tSmith, RoomName(r), tWeeks1to12>>)

\* n entries, in rooms 1..n or in rooms that come back with the given period;
\* entry number hole lies outside the window
LongEvents(n, period, hole) ==
    [i \in 1..n |-> LongEntry(IF period = 0 THEN i ELSE ((i - 1) % period) + 1, i # hole)]

\* the entries on one day, or the first s of them on Monday and the others on
\* Wednesday
LongTimetable(events, s) ==
    IF s = 0
    THEN <<[day |-> tMonday, events |-> events]>>
    ELSE <<[day |-> tMonday, events |-> SubSeq(events, 1, Min(s, Len(events)))],
           [day |-> tWednesday, events |-> SubSeq(events, Min(s, Len(events)) + 1, Len(events))]>>

LongTimetables ==
    {LongTimetable(LongEvents(n, period, hole), s) :
        n \in 0..MaxRooms, period \in {0, 3}, hole \in 0..2, s \in {0, 4}}

\* entries whose end time lies before their start time, and one that is clipped
\* at both ends
ReversedEntries ==
    {MakeEntry(<<t17to10, tCS101, tSmith, tRoomA1, tWeeks1to12>>),
     MakeEntry(<<t12to8, tCS102, tJones, tRoomB2, tWeeks1to12>>),
     MakeEntry(<<t830to1830, tCS102, tJones, tRoomB2, tAllWeeks>>)}

InitImage ==
    /\ pc = "image"
    /\ timetable \in TimetablesOver(IcalEntries) \cup LongTimetables
                       \cup TimetablesOver(ReversedEntries)
    /\ semester_start_date = 0
    /\ log = <<>>
    /\ IcalIdle
    /\ ImageIdle
    /\ ScrapeIdle
    /\ MainIdle

NextImage ==
    \/ ImageNoDays
    \/ ImageEnterDay
    \/ ImageSkipEvent
    \/ ImageBadTime
    \/ ImageOutside
    \/ ImageDraw
    \/ ImageEndDay
    \/ ImageSave
    \/ ImageSaveFails

SpecImage == InitImage /\ [][NextImage]_vars

(***************************************************************************)
(* One call of export_to_ical, on entries whose weeks fields put the range *)
(* in every order: a < b, a = b, a > b, a = 0, and a year before the range. *)
(***************************************************************************)
WeekEntries ==
    {MakeEntry(<<t9to10, tCS101, tSmith, tRoomA1, tWeeks12to1>>),
     MakeEntry(<<t9to10, tCS101, tSmith, tRoomA1, tYearWeeks>>),
     MakeEntry(<<t11to12, tCS102, tJones, tRoomB2, tWeeks0to1>>),
     MakeEntry(<<t9to10, tCS101, tSmith, tRoomA1, tWeeks3to5>>),
     MakeEntry(<<t11to12, tCS102, tJones, tRoomB2, tWeeks5to5>>),
     MakeEntry(<<t9to10, tCS101, tSmith, tRoomA1, tAllWeeks>>),
     MakeEntry(<<t9to10>>),
     MakeEntry(<<tTBA, tCS102, tJones, tRoomB2, tWeeks1to12>>),
     MakeEntry(<<t25to26, tCS101, tSmith, tRoomA1, tWeeks0to1>>)}

InitExport ==
    /\ pc = "ical_days"
    /\ timetable \in TimetablesOver(WeekEntries)
    /\ semester_start_date \in SemesterStarts
    /\ log = <<>>
    /\ IcalIdle
    /\ ImageIdle
    /\ ScrapeIdle
    /\ MainIdle

NextExport ==
    \/ IcalEmptyDay
    \/ IcalUnknownDay
    \/ IcalEnterDay
    \/ IcalSkipEvent
    \/ IcalBadTime
    \/ IcalAddEvents
    \/ IcalRaise
    \/ IcalEndDay
    \/ IcalEndDays
    \/ IcalWrite
    \/ IcalWriteFails

SpecExport == InitExport /\ [][NextExport]_vars

(***************************************************************************)
(* main: credentials, the browser steps, extraction, then the consumers.   *)
(* The calls of generate_timetable_image and export_to_ical hand over to   *)
(* the steps above and take over again when those are done.                *)
(***************************************************************************)
\* Python's `a or b` on values that are a string or None
Or(a, b) == IF a # NoValue THEN a ELSE b

\* lines 781-795: the user name and password before any prompt, and whether
\* the credentials file is opened
Credentials(a, env, file) ==
    LET u0 == Or(a.username, env.UL_USERNAME)
        p0 == Or(a.password, env.UL_PASSWORD)
        opened == a.creds_file /\ ~(u0 # NoValue /\ p0 # NoValue)
    IN  [opened |-> opened,
         username |-> IF opened /\ file.readable THEN Or(u0, file.username) ELSE u0,
         password |-> IF opened /\ file.readable THEN Or(p0, file.password) ELSE p0]

\* the browser steps of main, in the order of the code
BrowserSteps ==
    <<"goto", "fill_username", "fill_password", "click_login", "click_link", "content">>

\* --semester-start values: a Monday, a Tuesday, and a date in another format
MondayDate == "2025-09-08"
TuesdayDate == "2025-09-09"
SlashDate == "08/09/2025"

\* datetime.strptime(s, "%Y-%m-%d") as a day number (day 0 is a Monday), -1
\* for ValueError
StrpDate(s) ==
    CASE s = MondayDate -> 7
      [] s = TuesdayDate -> 8
      [] OTHER -> -1

tError == <<"e","r","r","o","r">>

\* `"error" in timetable`: the dict has the key, whatever built it
ErrorIn(r) ==
    \/ r.kind = "error"
    \/ r.kind = "timetable" /\ tError \in DictKeys(r.timetable)

\* pages the browser may hand over: no timetable table; a row longer than the
\* header row; the page of test_scrape_timetable; a cell without weeks; a
\* table whose only column is headed "error"; a table without rows; and a
\* table with a column that is no day, an empty column, and cells that the
\* consumers skip
MainDocs ==
    {[tables |-> <<OtherTable>>],
     [tables |-> <<[id |-> TimetableId,
                    trs |-> <<HeaderRow(<<tMonday>>, <<>>), DataRow(<<CellCS101, CellCS102>>)>>]>>],
     [tables |-> <<TestTable>>],
     [tables |-> <<[id |-> TimetableId,
                    trs |-> <<HeaderRow(<<tMonday>>, <<>>), DataRow(<< <<t9to10, tCS101>> >>)>>]>>],
     [tables |-> <<[id |-> TimetableId, trs |-> <<HeaderRow(<<tError>>, <<>>)>>]>>],
     [tables |-> <<[id |-> TimetableId, trs |-> <<HeaderRow(<<tMonday>>, <<>>)>>]>>],
     [tables |-> <<[id |-> TimetableId,
                    trs |-> <<HeaderRow(<<tLab, tMonday, tTuesday, tWednesday>>, <<>>),
                              DataRow(<<CellCS101,
                                        <<tTBA, tCS102, tJones, tRoomB2, tWeeks1to12>>,
                                        <<t19to20, tCS101, tSmith, tRoomA1, tWeeks3to5>> >>),
                              DataRow(<<CellEmpty, CellTimeOnly, CellCS102>>)>>]>>]}

\* command lines, environments and credentials files
CredentialArgs ==
    {[NoArgs EXCEPT !.username = u, !.password = p, !.creds_file = f] :
        u \in {NoValue, "flag-user"}, p \in {NoValue, "flag-pass"}, f \in BOOLEAN}

RunArgs ==
    {[NoArgs EXCEPT !.username = "flag-user", !.password = "flag-pass", !.output = o,
                    !.image = i, !.export_calendar = e, !.semester_start = s] :
        o \in BOOLEAN, i \in BOOLEAN, e \in BOOLEAN,
        s \in {NoValue, MondayDate, TuesdayDate, SlashDate}}

Environs ==
    {[UL_USERNAME |-> u, UL_PASSWORD |-> p] :
        u \in {NoValue, "env-user"}, p \in {NoValue, "env-pass"}}

CredsFiles ==
    {[readable |-> FALSE, username |-> NoValue, password |-> NoValue]}
    \cup {[readable |-> TRUE, username |-> u, password |-> p] :
            u \in {NoValue, "file-user"}, p \in {NoValue, "file-pass"}}

InitMain ==
    /\ pc = "main_start"
    /\ \/ /\ args \in CredentialArgs
          /\ environ \in Environs
          /\ creds_data \in CredsFiles
       \/ /\ args \in RunArgs
          /\ environ = [UL_USERNAME |-> NoValue, UL_PASSWORD |-> NoValue]
          /\ creds_data = [readable |-> FALSE, username |-> NoValue, password |-> NoValue]
    /\ username = NoValue
    /\ password = NoValue
    /\ calls = <<>>
    /\ json_file = NoFile
    /\ exit_code = -1
    /\ timetable = <<>>
    /\ semester_start_date = 0
    /\ log = <<>>
    /\ IcalIdle
    /\ ImageIdle
    /\ ScrapeIdle

\* lines 781-802: flags, environment, credentials file, prompts
MainCredentials ==
    /\ pc = "main_start"
    /\ LET c == Credentials(args, environ, creds_data)
       IN  /\ username' = Or(c.username, "prompt-user")
           /\ password' = Or(c.password, "prompt-pass")
           /\ calls' = calls \o (IF c.opened THEN <<"open_creds_file">> ELSE <<>>)
                             \o (IF c.username = NoValue THEN <<"input">> ELSE <<>>)
                             \o (IF c.password = NoValue THEN <<"getpass">> ELSE <<>>)
           /\ log' = IF c.opened /\ ~creds_data.readable
                     THEN Append(log, [level |-> "ERROR",
                                       text |-> "Failed to read credentials from file",
                                       about |-> <<>>])
                     ELSE log
    /\ pc' = "main_launch"
    /\ UNCHANGED <<scrapeVars, icalVars, imageVars, args, environ, creds_data, json_file,
                   exit_code>>

\* p.chromium.launch(...); browser.new_page()
MainLaunch ==
    /\ pc = "main_launch"
    /\ calls' = Append(calls, "launch")
    /\ pc' = BrowserSteps[1]
    /\ UNCHANGED <<scrapeVars, icalVars, imageVars, args, environ, creds_data, username,
                   password, json_file, exit_code, log>>

\* the launch raises: it stands before the `try`, the exception leaves main
MainLaunchFails ==
    /\ pc = "main_launch"
    /\ pc' = "main_raised"
    /\ UNCHANGED <<scrapeVars, icalVars, imageVars, mainVars, log>>

\* a browser step before page.content() goes through
MainStep ==
    \E k \in 1..5 :
        /\ pc = BrowserSteps[k]
        /\ calls' = Append(calls, BrowserSteps[k])
        /\ pc' = BrowserSteps[k + 1]
        /\ UNCHANGED <<scrapeVars, icalVars, imageVars, args, environ, creds_data, username,
                       password, json_file, exit_code, log>>

\* a handler of a browser step that logs the error and goes on
MainStepFailsGoesOn ==
    \E k \in 1..6, kind \in {"TimeoutError", "Error"} :
        /\ pc = BrowserSteps[k]
        /\ log' = Append(log, [level |-> "ERROR", text |-> BrowserSteps[k], about |-> <<kind>>])
        /\ pc' = IF k < 6 THEN BrowserSteps[k + 1] ELSE "main_scrape"
        /\ UNCHANGED <<scrapeVars, icalVars, imageVars, mainVars>>

\* a browser step raises: the handler of the step, or the outer one, logs
\* the error, closes the browser and returns 1
MainStepFails ==
    \E k \in 1..6, kind \in {"TimeoutError", "Error"} :
        /\ pc = BrowserSteps[k]
        /\ log' = Append(log, [level |-> "ERROR", text |-> BrowserSteps[k], about |-> <<kind>>])
        /\ exit_code' = 1
        /\ pc' = "main_done"
        /\ UNCHANGED <<scrapeVars, icalVars, imageVars, args, environ, creds_data, username,
                       password, calls, json_file>>

\* html_content = page.content()
MainContent ==
    /\ pc = BrowserSteps[6]
    /\ html_content' \in MainDocs
    /\ calls' = Append(calls, BrowserSteps[6])
    /\ pc' = "main_scrape"
    /\ UNCHANGED <<result, icalVars, imageVars, args, environ, creds_data, username,
                   password, json_file, exit_code, log>>

\* timetable = scrape_timetable(html_content)
MainScrape ==
    /\ pc = "main_scrape"
    /\ result' = scrape_timetable(html_content)
    /\ calls' = Append(calls, "scrape_timetable")
    /\ pc' = "main_check"
    /\ UNCHANGED <<html_content, icalVars, imageVars, args, environ, creds_data, username,
                   password, json_file, exit_code, log>>

\* `if "error" in timetable:` error, return 1
MainErrorResult ==
    /\ pc = "main_check"
    /\ ErrorIn(result)
    /\ log' = Append(log, [level |-> "ERROR", text |-> "error in timetable", about |-> <<>>])
    /\ exit_code' = 1
    /\ pc' = "main_done"
    /\ UNCHANGED <<scrapeVars, icalVars, imageVars, args, environ, creds_data, username,
                   password, calls, json_file>>

MainNoError ==
    /\ pc = "main_check"
    /\ ~ErrorIn(result)
    /\ timetable' = result.timetable
    /\ pc' = "main_save"
    /\ UNCHANGED <<scrapeVars, semester_start_date, ical_day, ical_ev, cal, ics_file, ical_ret,
                   imageVars, mainVars, log>>

\* `if args.output: save_timetable(...)`
MainSave ==
    /\ pc = "main_save"
    /\ args.output
    /\ calls' = Append(calls, "save_timetable")
    /\ json_file' = [exists |-> TRUE, components |-> timetable]
    /\ log' = Append(log, [level |-> "SUCCESS", text |-> "Timetable saved", about |-> <<>>])
    /\ pc' = "main_image"
    /\ UNCHANGED <<scrapeVars, icalVars, imageVars, args, environ, creds_data, username,
                   password, exit_code>>

\* save_timetable cannot write: error logged, main goes on
MainSaveFails ==
    /\ pc = "main_save"
    /\ args.output
    /\ calls' = Append(calls, "save_timetable")
    /\ log' = Append(log, [level |-> "ERROR", text |-> "Failed to save timetable", about |-> <<>>])
    /\ pc' = "main_image"
    /\ UNCHANGED <<scrapeVars, icalVars, imageVars, args, environ, creds_data, username,
                   password, json_file, exit_code>>

MainNoSave ==
    /\ pc = "main_save"
    /\ ~args.output
    /\ pc' = "main_image"
    /\ UNCHANGED <<scrapeVars, icalVars, imageVars, mainVars, log>>

\* `if args.image: generate_timetable_image(...)`
MainImage ==
    /\ pc = "main_image"
    /\ args.image
    /\ calls' = Append(calls, "generate_timetable_image")
    /\ pc' = "image"
    /\ UNCHANGED <<scrapeVars, icalVars, imageVars, args, environ, creds_data, username,
                   password, json_file, exit_code, log>>

MainNoImage ==
    /\ pc = "main_image"
    /\ ~args.image
    /\ pc' = "main_export"
    /\ UNCHANGED <<scrapeVars, icalVars, imageVars, mainVars, log>>

\* generate_timetable_image has returned
MainImageReturns ==
    /\ pc = "image_done"
    /\ pc' = "main_export"
    /\ UNCHANGED <<scrapeVars, icalVars, imageVars, mainVars, log>>

\* `if not args.semester_start:` error, return 1
MainExportNoStart ==
    /\ pc = "main_export"
    /\ args.export_calendar
    /\ args.semester_start = NoValue
    /\ log' = Append(log, [level |-> "ERROR", text |-> "--semester-start is required",
                           about |-> <<>>])
    /\ exit_code' = 1
    /\ pc' = "main_done"
    /\ UNCHANGED <<scrapeVars, icalVars, imageVars, args, environ, creds_data, username,
                   password, calls, json_file>>

\* strptime raises ValueError: error, return 1
MainExportBadDate ==
    /\ pc = "main_export"
    /\ args.export_calendar
    /\ args.semester_start # NoValue
    /\ StrpDate(args.semester_start) = -1
    /\ log' = Append(log, [level |-> "ERROR", text |-> "Invalid date format", about |-> <<>>])
    /\ exit_code' = 1
    /\ pc' = "main_done"
    /\ UNCHANGED <<scrapeVars, icalVars, imageVars, args, environ, creds_data, username,
                   password, calls, json_file>>

\* a date: warning when it is no Monday, then export_to_ical(...)
MainExport ==
    /\ pc = "main_export"
    /\ args.export_calendar
    /\ args.semester_start # NoValue
    /\ StrpDate(args.semester_start) # -1
    /\ semester_start_date' = StrpDate(args.semester_start)
    /\ log' = IF StrpDate(args.semester_start) % 7 # 0
              THEN Append(log, [level |-> "WARNING",
                                text |-> "Semester start date should be a Monday",
                                about |-> <<>>])
              ELSE log
    /\ calls' = Append(calls, "export_to_ical")
    /\ pc' = "ical_days"
    /\ UNCHANGED <<scrapeVars, timetable, ical_day, ical_ev, cal, ics_file, ical_ret, imageVars,
                   args, environ, creds_data, username, password, json_file, exit_code>>

MainNoExport ==
    /\ pc = "main_export"
    /\ ~args.export_calendar
    /\ pc' = "main_display"
    /\ UNCHANGED <<scrapeVars, icalVars, imageVars, mainVars, log>>

\* export_to_ical has returned: `if calendar_path:` success logged
MainExportReturns ==
    /\ pc = "ical_done"
    /\ log' = IF ical_ret # "None"
              THEN Append(log, [level |-> "SUCCESS", text |-> "Calendar exported to",
                                about |-> <<>>])
              ELSE log
    /\ pc' = "main_display"
    /\ UNCHANGED <<scrapeVars, icalVars, imageVars, mainVars>>

\* display_timetable(...); return 0
MainDisplay ==
    /\ pc = "main_display"
    /\ calls' = Append(calls, "display_timetable")
    /\ log' = Append(log, [level |-> "SUCCESS",
                           text |-> "Timetable processing completed successfully",
                           about |-> <<>>])
    /\ exit_code' = 0
    /\ pc' = "main_done"
    /\ UNCHANGED <<scrapeVars, icalVars, imageVars, args, environ, creds_data, username,
                   password, json_file>>

NextMain ==
    \/ MainCredentials
    \/ MainLaunch
    \/ MainLaunchFails
    \/ MainStep
    \/ MainStepFails
    \/ MainContent
    \/ MainScrape
    \/ MainErrorResult
    \/ MainNoError
    \/ MainSave
    \/ MainSaveFails
    \/ MainNoSave
    \/ MainImage
    \/ MainNoImage
    \/ MainImageReturns
    \/ MainExportNoStart
    \/ MainExportBadDate
    \/ MainExport
    \/ MainNoExport
    \/ MainExportReturns
    \/ MainDisplay
    \/ ImageNoDays
    \/ ImageEnterDay
    \/ ImageSkipEvent
    \/ ImageBadTime
    \/ ImageOutside
    \/ ImageDraw
    \/ ImageEndDay
    \/ ImageSave
    \/ ImageSaveFails
    \/ IcalEmptyDay
    \/ IcalUnknownDay
    \/ IcalEnterDay
    \/ IcalSkipEvent
    \/ IcalBadTime
    \/ IcalAddEvents
    \/ IcalRaise
    \/ IcalEndDay
    \/ IcalEndDays
    \/ IcalWrite
    \/ IcalWriteFails

SpecMain == InitMain /\ [][NextMain]_vars

(***************************************************************************)
(* scrape_timetable_for_user(username, password, headless): the browser    *)
(* steps and the extraction as one function that returns a dict.           *)
(***************************************************************************)
InitUser ==
    /\ pc = "user_browser"
    /\ username = "mock_user"
    /\ password = "mock_pass"
    /\ args = NoArgs
    /\ environ = [UL_USERNAME |-> NoValue, UL_PASSWORD |-> NoValue]
    /\ creds_data = [readable |-> FALSE, username |-> NoValue, password |-> NoValue]
    /\ calls = <<>>
    /\ json_file = NoFile
    /\ exit_code = -1
    /\ timetable = <<>>
    /\ semester_start_date = 0
    /\ log = <<>>
    /\ IcalIdle
    /\ ImageIdle
    /\ ScrapeIdle

\* the next browser step goes through
UserStep ==
    /\ pc = "user_browser"
    /\ Len(calls) < 5
    /\ calls' = Append(calls, BrowserSteps[Len(calls) + 1])
    /\ UNCHANGED <<pc, scrapeVars, icalVars, imageVars, args, environ, creds_data, username,
                   password, json_file, exit_code, log>>

\* the failure of a browser step leaves the function as an exception
UserStepFailsRaises ==
    \E kind \in {"TimeoutError", "Error"} :
        /\ pc = "user_browser"
        /\ Len(calls) < 6
        /\ log' = Append(log, [level |-> "ERROR", text |-> BrowserSteps[Len(calls) + 1],
                               about |-> <<kind>>])
        /\ pc' = "user_done"
        /\ UNCHANGED <<scrapeVars, icalVars, imageVars, mainVars>>

\* the next browser step fails (login rejected, timeout, automation fault):
\* the function returns a dict with the key `error`
UserStepFails ==
    \E kind \in {"TimeoutError", "Error"} :
        /\ pc = "user_browser"
        /\ Len(calls) < 6
        /\ log' = Append(log, [level |-> "ERROR", text |-> BrowserSteps[Len(calls) + 1],
                               about |-> <<kind>>])
        /\ result' = ErrorResult(<<kind, BrowserSteps[Len(calls) + 1]>>)
        /\ pc' = "user_done"
        /\ UNCHANGED <<html_content, icalVars, imageVars, mainVars>>

\* the page is captured
UserContent ==
    /\ pc = "user_browser"
    /\ Len(calls) = 5
    /\ html_content' \in Docs
    /\ calls' = Append(calls, BrowserSteps[6])
    /\ pc' = "user_scrape"
    /\ UNCHANGED <<result, icalVars, imageVars, args, environ, creds_data, username,
                   password, json_file, exit_code, log>>

\* return scrape_timetable(html_content)
UserScrape ==
    /\ pc = "user_scrape"
    /\ result' = scrape_timetable(html_content)
    /\ calls' = Append(calls, "scrape_timetable")
    /\ pc' = "user_done"
    /\ UNCHANGED <<html_content, icalVars, imageVars, args, environ, creds_data, username,
                   password, json_file, exit_code, log>>

NextUser ==
    \/ UserStep
    \/ UserStepFails
    \/ UserContent
    \/ UserScrape

SpecUser == InitUser /\ [][NextUser]_vars

(***************************************************************************)
(* Properties of the extraction.                                           *)
(***************************************************************************)
Scraped == pc = "scraped"

HasTimetableTable ==
    \E i \in 1..Len(html_content.tables) : html_content.tables[i].id = TimetableId

\* the rows of the first table carrying the timetable id
InputRows ==
    LET i == CHOOSE k \in 1..Len(html_content.tables) :
                 /\ html_content.tables[k].id = TimetableId
                 /\ \A j \in 1..(k - 1) : html_content.tables[j].id # TimetableId
    IN  html_content.tables[i].trs

\* the tr elements after the first one
InputDataRows == [r \in 1..(Len(InputRows) - 1) |-> InputRows[r + 1]]

InputHeaders == Headers(InputRows)

NonEmptyCell(cell) == \E n \in 1..Len(cell) : \E c \in 1..Len(cell[n]) : cell[n][c] \notin Whitespace

\* C1: for every document without a table carrying the timetable id,
\* scrape_timetable returns {error: "Timetable table not found in the HTML
\* content"}; it returns a value, it does not raise.
C1_NotFound ==
    (Scraped /\ ~HasTimetableTable) =>
        result = [kind |-> "error",
                  error |-> <<"Timetable table not found in the HTML content">>,
                  timetable |-> <<>>]

C1_Witness ==
    /\ Scraped
    /\ html_content.tables # <<>>
    /\ ~HasTimetableTable
    /\ result.kind = "error"

\* entries of the non-empty cells of column i, in row order
C2_ColumnEntries(i) ==
    Concat([r \in 1..Len(InputDataRows) |->
              IF i <= Len(InputDataRows[r].tds) /\ NonEmptyCell(InputDataRows[r].tds[i])
              THEN <<MakeEntry(StrippedStrings(InputDataRows[r].tds[i]))>>
              ELSE <<>>])

\* entries of the non-empty cells of one row that sit under a header named h
C2_RowEntriesFor(h, tds) ==
    LET cols == SelectSeq([j \in 1..Len(tds) |-> j],
                          LAMBDA j : InputHeaders[j] = h /\ NonEmptyCell(tds[j]))
    IN  [n \in 1..Len(cols) |-> MakeEntry(StrippedStrings(tds[cols[n]]))]

C2_NameEntries(h) ==
    Concat([r \in 1..Len(InputDataRows) |-> C2_RowEntriesFor(h, InputDataRows[r].tds)])

C2_RowsFit ==
    \A r \in 1..Len(InputDataRows) : Len(InputDataRows[r].tds) <= Len(InputHeaders)

\* C2 as stated: when no data row has more cells than there are headers, the
\* first row is skipped and the list of the header at position i is, in row
\* order, one entry per non-empty cell of column i.
C2_Original ==
    (Scraped /\ HasTimetableTable /\ C2_RowsFit) =>
        /\ result.kind = "timetable"
        /\ \A i \in 1..Len(InputHeaders) :
              DictGet(result.timetable, InputHeaders[i]) = C2_ColumnEntries(i)

\* C2 amended: when no data row has more cells than there are headers, the
\* first row is skipped and the list of a header name h is one entry per
\* non-empty cell of any column whose header is h, in row order and, within a
\* row, in column order (columns with the same header text share one list).
C2_PositionalMapping ==
    (Scraped /\ HasTimetableTable /\ C2_RowsFit) =>
        /\ result.kind = "timetable"
        /\ \A i \in 1..Len(InputHeaders) :
              DictGet(result.timetable, InputHeaders[i]) = C2_NameEntries(InputHeaders[i])

C2_Witness ==
    /\ Scraped
    /\ HasTimetableTable
    /\ C2_RowsFit
    /\ result.kind = "timetable"
    /\ Len(InputHeaders) = 2
    /\ InputHeaders[1] = InputHeaders[2]
    /\ \E r \in 1..Len(InputDataRows) :
          /\ Len(InputDataRows[r].tds) = 2
          /\ NonEmptyCell(InputDataRows[r].tds[1])
          /\ NonEmptyCell(InputDataRows[r].tds[2])
    /\ Len(DictGet(result.timetable, InputHeaders[1])) >= 2

\* fragment n of a cell, None when the cell has fewer fragments
C3_Fragment(cell, n) ==
    LET fr == StrippedStrings(cell) IN IF n <= Len(fr) THEN fr[n] ELSE None

\* C3: a non-empty cell with k fragments yields an entry with time, course_code,
\* lecturer, room, weeks = fragments 1..5, None for each missing fragment,
\* fragments beyond the fifth ignored; no k >= 1 makes the extraction fail.
C3_EntryFields ==
    (Scraped /\ HasTimetableTable /\ C2_RowsFit) =>
        /\ result.kind = "timetable"
        /\ \A r \in 1..Len(InputDataRows) : \A j \in 1..Len(InputDataRows[r].tds) :
              NonEmptyCell(InputDataRows[r].tds[j]) =>
                 LET cell == InputDataRows[r].tds[j]
                     lst == DictGet(result.timetable, InputHeaders[j])
                 IN  \E n \in 1..Len(lst) :
                        /\ lst[n].time = C3_Fragment(cell, 1)
                        /\ lst[n].course_code = C3_Fragment(cell, 2)
                        /\ lst[n].lecturer = C3_Fragment(cell, 3)
                        /\ lst[n].room = C3_Fragment(cell, 4)
                        /\ lst[n].weeks = C3_Fragment(cell, 5)
                        /\ DOMAIN lst[n] = {"time", "course_code", "lecturer", "room", "weeks"}

C3_Witness ==
    /\ Scraped
    /\ result.kind = "timetable"
    /\ \E r \in 1..Len(InputDataRows) : \E j \in 1..Len(InputDataRows[r].tds) :
          /\ Len(StrippedStrings(InputDataRows[r].tds[j])) = 3
          /\ \E n \in 1..Len(DictGet(result.timetable, InputHeaders[j])) :
                LET e == DictGet(result.timetable, InputHeaders[j])[n]
                IN  e.lecturer # None /\ e.room = None /\ e.weeks = None

\* the trimmed text of every th element of the table
C4_HeaderTexts ==
    UNION {{Strip(InputRows[r].ths[i]) : i \in 1..Len(InputRows[r].ths)} :
              r \in 1..Len(InputRows)}

\* C4: a returned Timetable has exactly the header texts as keys: every header
\* has a list, also one whose column had no entry, and there is no other key.
C4_KeysAreHeaders ==
    (Scraped /\ result.kind = "timetable") =>
        /\ HasTimetableTable
        /\ DictKeys(result.timetable) = C4_HeaderTexts
        /\ \A i, j \in 1..Len(result.timetable) :
              result.timetable[i].day = result.timetable[j].day => i = j

C4_Witness ==
    /\ Scraped
    /\ result.kind = "timetable"
    /\ \E i, j \in 1..Len(result.timetable) :
          /\ result.timetable[i].events = <<>>
          /\ result.timetable[j].events # <<>>

\* C5 as stated: a data row with more td cells than there are headers makes
\* scrape_timetable return an ErrorResult "Failed to parse timetable HTML: ...".
C5_Original ==
    (Scraped /\ HasTimetableTable /\ ~C2_RowsFit) =>
        /\ result.kind = "error"
        /\ result.error[1] = "Failed to parse timetable HTML: "

C5_Overflow ==
    \E r \in 1..Len(InputDataRows) : \E j \in 1..Len(InputDataRows[r].tds) :
        j > Len(InputHeaders) /\ NonEmptyCell(InputDataRows[r].tds[j])

\* C5 amended: a data row with a non-empty td cell at a column index beyond the
\* last header makes scrape_timetable return an ErrorResult whose message
\* starts with "Failed to parse timetable HTML: ": the cell is not dropped, no
\* partial Timetable is returned and nothing is raised.  (An empty td cell
\* beyond the last header adds nothing and is not an error.)
C5_ExtraCellIsFatal ==
    (Scraped /\ HasTimetableTable /\ C5_Overflow) =>
        /\ result.kind = "error"
        /\ result.error[1] = "Failed to parse timetable HTML: "
        /\ result.timetable = <<>>

C5_Witness ==
    /\ Scraped
    /\ HasTimetableTable
    /\ C5_Overflow
    /\ Len(InputHeaders) = 1
    /\ Len(InputDataRows) = 1
    /\ Len(InputDataRows[1].tds) = 2
    /\ NonEmptyCell(InputDataRows[1].tds[1])
    /\ NonEmptyCell(InputDataRows[1].tds[2])
    /\ result.kind = "error"

(***************************************************************************)
(* Properties of the consumers.                                            *)
(***************************************************************************)
WeekdayNames == <<tMonday, tTuesday, tWednesday, tThursday, tFriday, tSaturday, tSunday>>

IsWeekday(day) == \E k \in 1..7 : WeekdayNames[k] = day

\* Monday = 0 .. Sunday = 6
WeekdayOffset(day) == (CHOOSE k \in 1..7 : WeekdayNames[k] = day) - 1

\* the time fields of the timetables that denote times of day, as
\* <<start hour, start minute, end hour, end minute>>; <<>> for the others
TimeOfDay(time) ==
    CASE time = t9to10 -> <<9, 0, 10, 0>>
      [] time = t11to12 -> <<11, 0, 12, 0>>
      [] time = t1430to1530 -> <<14, 30, 15, 30>>
      [] time = t830to1830 -> <<8, 30, 18, 30>>
      [] time = t19to20 -> <<19, 0, 20, 0>>
      [] OTHER -> <<>>

\* the weeks fields of the timetables whose first "digits-digits" is a-b, as
\* <<a, b>>; <<>> for the others
RangeOfWeeks(weeks) ==
    CASE weeks = tWeeks3to5 -> <<3, 5>>
      [] weeks = tWeeks1to12 -> <<1, 12>>
      [] weeks = tWeeks12to1 -> <<12, 1>>
      [] weeks = tWeeks0to1 -> <<0, 1>>
      [] weeks = tWeeks5to5 -> <<5, 5>>
      [] weeks = tYearWeeks -> <<2024, 25>>
      [] OTHER -> <<>>

HasCourse(e) == e.course_code # None /\ e.course_code # <<>>

EntryAt(d, n) == timetable[d].events[n]

Positions ==
    {<<d, n>> \in (1..Len(timetable)) \X (1..MaxEvents) : n <= Len(timetable[d].events)}

OriginOf(d, n) == [day |-> timetable[d].day, index |-> n]

\* the exporter has run its loop body to the end for entry n of day d
IcalProcessed(d, n) ==
    /\ IsWeekday(timetable[d].day)
    /\ \/ d < ical_day
       \/ d = ical_day /\ n <= ical_ev

\* the exporter has left its loop through an exception at entry n of day d
IcalFaultedAt(d, n) ==
    /\ pc = "ical_done"
    /\ ical_ret = "None"
    /\ log # <<>>
    /\ log[Len(log)].about \in {<<"TypeError">>, <<"ValueError">>}
    /\ d = ical_day
    /\ n = ical_ev + 1

ComponentsOf(d, n) == SelectSeq(cal, LAMBDA c : c.origin = OriginOf(d, n))

\* C6: an entry on a recognised day with a time of day, a course code and a
\* weeks field whose first "digits-digits" is a-b yields exactly one VEVENT for
\* every week w of a..b, starting on day semester_start + weekday offset +
\* (w - 1) * 7 at the start time, and nothing else.
C6_RangedOccurrences ==
    \A p \in Positions :
        LET e == EntryAt(p[1], p[2])
            t == TimeOfDay(e.time)
            r == RangeOfWeeks(e.weeks)
            mine == ComponentsOf(p[1], p[2])
        IN  (IcalProcessed(p[1], p[2]) /\ HasCourse(e) /\ t # <<>> /\ r # <<>>) =>
               /\ Len(mine) = Cardinality(r[1]..r[2])
               /\ \A i \in 1..Len(mine) : mine[i].vevent.rrule = 0
               /\ \A w \in r[1]..r[2] : \E i \in 1..Len(mine) :
                     mine[i].vevent.dtstart =
                        [day |-> semester_start_date + WeekdayOffset(timetable[p[1]].day)
                                    + (w - 1) * 7,
                         hour |-> t[1], minute |-> t[2]]

\* "Weeks 3-5" on a Wednesday: three VEVENTs, on days start+2+14, +21, +28
C6_Witness ==
    \E p \in Positions :
        /\ IcalProcessed(p[1], p[2])
        /\ timetable[p[1]].day = tWednesday
        /\ EntryAt(p[1], p[2]).weeks = tWeeks3to5
        /\ Len(ComponentsOf(p[1], p[2])) = 3
        /\ ComponentsOf(p[1], p[2])[1].vevent.dtstart.day = semester_start_date + 2 + 14
        /\ ComponentsOf(p[1], p[2])[3].vevent.dtstart.day = semester_start_date + 2 + 28

\* C7 as stated: an entry with a course code and a time of day whose weeks
\* field is null or holds no "digits-digits" yields one VEVENT recurring
\* weekly 12 times from semester_start + weekday offset, and is never an error.
C7_Original ==
    \A p \in Positions :
        LET e == EntryAt(p[1], p[2])
            t == TimeOfDay(e.time)
            mine == ComponentsOf(p[1], p[2])
        IN  (IsWeekday(timetable[p[1]].day) /\ HasCourse(e) /\ t # <<>>
                /\ RangeOfWeeks(e.weeks) = <<>>) =>
               /\ ~IcalFaultedAt(p[1], p[2])
               /\ IcalProcessed(p[1], p[2]) =>
                     /\ Len(mine) = 1
                     /\ mine[1].vevent.rrule = 12
                     /\ mine[1].vevent.dtstart =
                           [day |-> semester_start_date + WeekdayOffset(timetable[p[1]].day),
                            hour |-> t[1], minute |-> t[2]]

C9_Original ==
    \A p \in Positions :
        LET e == EntryAt(p[1], p[2])
        IN  (e.lecturer = None \/ e.room = None \/ e.weeks = None) =>
               ~(IcalFaultedAt(p[1], p[2]) /\ log[Len(log)].about = <<"TypeError">>)

\* the exporter's step for the timetable key it takes next
IcalTakesUnknownDay ==
    /\ pc = "ical_days"
    /\ ical_day < Len(timetable)
    /\ ~IsWeekday(timetable[ical_day + 1].day)

UnknownDayWarning(day) == [level |-> "WARNING", text |-> "Unknown day", about |-> day]

\* C10 as stated: taking a key that is not Monday..Sunday adds no VEVENT, logs
\* a warning and goes on with the next key without ending the export.
C10_Original ==
    [][IcalTakesUnknownDay =>
          /\ cal' = cal
          /\ log' = Append(log, UnknownDayWarning(timetable[ical_day + 1].day))
          /\ pc' = "ical_days"
          /\ ical_day' = ical_day + 1
          /\ ical_ret' = ical_ret
          /\ ics_file' = ics_file]_vars

\* C10 amended: taking a key that is not Monday..Sunday adds no VEVENT, logs a
\* warning when the key has at least one entry (nothing when its list is
\* empty) and goes on with the next key without ending the export.
C10_UnknownDaySkipped ==
    [][IcalTakesUnknownDay =>
          /\ cal' = cal
          /\ log' = IF timetable[ical_day + 1].events # <<>>
                    THEN Append(log, UnknownDayWarning(timetable[ical_day + 1].day))
                    ELSE log
          /\ pc' = "ical_days"
          /\ ical_day' = ical_day + 1
          /\ ical_ret' = ical_ret
          /\ ics_file' = ics_file]_vars

\* an unknown key with an entry was passed and the recognised day after it
\* was exported to the file
C10_Witness ==
    /\ pc = "ical_done"
    /\ ical_ret = "output_file"
    /\ Len(timetable) = 2
    /\ timetable[1].day = tLab
    /\ timetable[1].events # <<>>
    /\ IsWeekday(timetable[2].day)
    /\ ics_file.components # <<>>
    /\ \A i \in 1..Len(ics_file.components) : ics_file.components[i].origin.day = timetable[2].day
    /\ \E i \in 1..Len(log) : log[i] = UnknownDayWarning(tLab)

\* the time fields of the timetables that do not match the time pattern
UnmatchedTime(time) == time = tTBA

\* number of the non-empty days up to key d, as the renderer counts them
DayRank(d) == Cardinality({k \in 1..d : timetable[k].events # <<>>})

\* the renderer has run its loop body to the end for entry n of key d
ImageProcessed(d, n) ==
    /\ timetable[d].events # <<>>
    /\ \/ DayRank(d) < img_day
       \/ DayRank(d) = img_day /\ n <= img_ev

TimeWarning(time) ==
    [level |-> "WARNING", text |-> "Could not parse time format", about |-> time]

\* the warnings about a time format written so far
TimeWarnings == {i \in 1..Len(log) : \E p \in Positions : log[i] = TimeWarning(EntryAt(p[1], p[2]).time)}

\* neither consumer made anything of an entry whose time it could not match,
\* the export did not end at such an entry, and a consumer that ran to its
\* end passed every entry of the keys it takes
UnmatchedTimeSkipped ==
    /\ \A p \in Positions :
          UnmatchedTime(EntryAt(p[1], p[2]).time) =>
             /\ ComponentsOf(p[1], p[2]) = <<>>
             /\ \A i \in 1..Len(patches) : patches[i].origin # OriginOf(p[1], p[2])
             /\ ~IcalFaultedAt(p[1], p[2])
    /\ (pc = "ical_done" /\ ical_ret = "output_file") =>
          \A p \in Positions : IsWeekday(timetable[p[1]].day) => IcalProcessed(p[1], p[2])
    /\ png_file.exists =>
          \A p \in Positions : ImageProcessed(p[1], p[2])

\* C11 as stated: every entry whose time does not match the pattern, when a
\* consumer comes to it, is skipped with one warning about its time, yields
\* nothing, and does not stop the processing of the other entries.
C11_Original ==
    /\ UnmatchedTimeSkipped
    /\ Cardinality(TimeWarnings) =
          Cardinality({p \in Positions : /\ UnmatchedTime(EntryAt(p[1], p[2]).time)
                                         /\ ImageProcessed(p[1], p[2])})
          + Cardinality({p \in Positions : /\ UnmatchedTime(EntryAt(p[1], p[2]).time)
                                           /\ IcalProcessed(p[1], p[2])})

\* C11 amended: every entry with a course code whose time does not match the
\* pattern, when a consumer comes to it, is skipped with one warning about its
\* time; an entry without a course code is skipped without a warning whatever
\* its time.  Such entries yield nothing and do not stop the processing of the
\* other entries.
C11_UnmatchedTimeWarned ==
    /\ UnmatchedTimeSkipped
    /\ Cardinality(TimeWarnings) =
          Cardinality({p \in Positions : /\ UnmatchedTime(EntryAt(p[1], p[2]).time)
                                         /\ HasCourse(EntryAt(p[1], p[2]))
                                         /\ ImageProcessed(p[1], p[2])})
          + Cardinality({p \in Positions : /\ UnmatchedTime(EntryAt(p[1], p[2]).time)
                                           /\ HasCourse(EntryAt(p[1], p[2]))
                                           /\ IcalProcessed(p[1], p[2])})

\* "TBA" with a course code before "8:30 - 18:30" on a Wednesday: both consumers
\* warned once, passed on and made the block and the VEVENT of the second entry
C11_Witness ==
    /\ pc = "ical_done"
    /\ ical_ret = "output_file"
    /\ png_file.exists
    /\ Len(timetable) = 1
    /\ timetable[1].day = tWednesday
    /\ Len(timetable[1].events) = 2
    /\ timetable[1].events[1].time = tTBA
    /\ HasCourse(timetable[1].events[1])
    /\ log[1] = TimeWarning(tTBA)
    /\ Cardinality(TimeWarnings) = 2
    /\ Len(patches) = 1
    /\ patches[1].origin = OriginOf(1, 2)
    /\ Len(ics_file.components) = 1
    /\ ics_file.components[1].origin = OriginOf(1, 2)

\* the time fields of the timetables that match the time pattern, as <<start,
\* end>> in minutes since midnight; <<>> for the others
ClockMinutes(time) ==
    CASE time = t9to10 -> <<540, 600>>
      [] time = t1430to1530 -> <<870, 930>>
      [] time = t830to1830 -> <<510, 1110>>
      [] time = t19to20 -> <<1140, 1200>>
      [] time = t25to26 -> <<1500, 1560>>
      [] time = t17to10 -> <<1020, 600>>
      [] time = t12to8 -> <<720, 480>>
      [] OTHER -> <<>>

\* the interval from span[1] to span[2] has a point in [9:00, 18:00], which is
\* 540 to 1080 in minutes since midnight
MeetsWindow(span) ==
    /\ span[1] <= span[2]
    /\ Max(span[1], 540) <= Min(span[2], 1080)

PatchesOf(d, n) == SelectSeq(patches, LAMBDA b : b.origin = OriginOf(d, n))

\* C12: of an entry with a course code and a time that matches the pattern the
\* renderer draws nothing when its interval has no point in [9:00, 18:00], and
\* otherwise one block from max(start, 9:00) to min(end, 18:00); the VEVENTs of
\* the exporter keep the start and end of the entry, and an entry outside the
\* window has as many VEVENTs as its weeks ask for.
C12_Clipping ==
    \A p \in Positions :
        LET e == EntryAt(p[1], p[2])
            span == ClockMinutes(e.time)
            r == RangeOfWeeks(e.weeks)
            blocks == PatchesOf(p[1], p[2])
            mine == ComponentsOf(p[1], p[2])
        IN  (HasCourse(e) /\ span # <<>>) =>
               /\ (ImageProcessed(p[1], p[2]) /\ span[1] <= span[2] /\ ~MeetsWindow(span)) =>
                     blocks = <<>>
               /\ (ImageProcessed(p[1], p[2]) /\ MeetsWindow(span)) =>
                     /\ Len(blocks) = 1
                     /\ blocks[1].start_time = Max(span[1], 540)
                     /\ blocks[1].end_time = Min(span[2], 1080)
               /\ \A i \in 1..Len(mine) :
                     /\ mine[i].vevent.dtstart.hour * 60 + mine[i].vevent.dtstart.minute = span[1]
                     /\ mine[i].vevent.dtend.hour * 60 + mine[i].vevent.dtend.minute = span[2]
               /\ (IcalProcessed(p[1], p[2]) /\ TimeOfDay(e.time) # <<>> /\ r # <<>>) =>
                     Len(mine) = Cardinality(r[1]..r[2])

\* "8:30 - 18:30" and "19:00 - 20:00" on a Wednesday: one block from 9:00 to
\* 18:00 and none for the second entry; a VEVENT from 8:30 to 18:30 and three
\* from 19:00 to 20:00
C12_Witness ==
    /\ pc = "ical_done"
    /\ ical_ret = "output_file"
    /\ png_file.exists
    /\ Len(timetable) = 1
    /\ timetable[1].day = tWednesday
    /\ Len(timetable[1].events) = 2
    /\ timetable[1].events[1].time = t830to1830
    /\ timetable[1].events[2].time = t19to20
    /\ Len(png_file.components) = 1
    /\ png_file.components[1].start_time = 9 * 60
    /\ png_file.components[1].end_time = 18 * 60
    /\ Len(ics_file.components) = 4
    /\ ics_file.components[1].vevent.dtstart.hour = 8
    /\ ics_file.components[1].vevent.dtstart.minute = 30
    /\ ics_file.components[1].vevent.dtend.hour = 18
    /\ ics_file.components[1].vevent.dtend.minute = 30
    /\ \A i \in 2..4 : ics_file.components[i].vevent.dtstart.hour = 19

\* the rooms of the first n blocks drawn
RoomsDrawn(n) == {patches[j].room : j \in 1..n}

\* the key of the timetable a block was drawn for
KeyIndex(day) == CHOOSE d \in 1..Len(timetable) : timetable[d].day = day

\* block i was drawn for an entry that comes before the entry of block j
DrawnBefore(i, j) ==
    LET a == patches[i].origin
        b == patches[j].origin
    IN  \/ KeyIndex(a.day) < KeyIndex(b.day)
        \/ a.day = b.day /\ a.index < b.index

\* C13: the blocks are drawn in day order then row order; the block that is
\* the first of its room, with k distinct rooms drawn before it, has palette
\* colour k mod palette size, every later block of the room has the colour of
\* the first, and the room -> colour dict holds each drawn room once, with that
\* colour, in the order of the first blocks.
C13_RoomColours ==
    /\ \A i, j \in 1..Len(patches) : i < j => DrawnBefore(i, j)
    /\ \A i \in 1..Len(patches) :
          LET first == CHOOSE f \in 1..i :
                          /\ patches[f].room = patches[i].room
                          /\ \A g \in 1..(f - 1) : patches[g].room # patches[i].room
          IN  patches[i].color = Cardinality(RoomsDrawn(first - 1)) % PaletteSize
    /\ Len(rooms) = Cardinality(RoomsDrawn(Len(patches)))
    /\ current_color = Len(rooms)
    /\ \A k \in 1..Len(rooms) :
          /\ rooms[k].color = (k - 1) % PaletteSize
          /\ \E i \in 1..Len(patches) :
                /\ patches[i].room = rooms[k].room
                /\ Cardinality(RoomsDrawn(i)) = k
                /\ Cardinality(RoomsDrawn(i - 1)) = k - 1

\* ten rooms on two days were drawn and saved: the tenth room has the colour
\* of the first, the second room another one
C13_Witness ==
    /\ pc = "image_done"
    /\ png_file.exists
    /\ Len(timetable) = 2
    /\ Len(rooms) = 10
    /\ Len(png_file.components) = 10
    /\ png_file.components[10].room # png_file.components[1].room
    /\ png_file.components[10].color = png_file.components[1].color
    /\ png_file.components[2].color # png_file.components[1].color

\* C14 as stated: when both consumers have run to their end over a timetable,
\* an entry under an unrecognised key, without a course code or with a time
\* that does not match has neither a block nor a VEVENT, and an entry whose
\* interval meets the window and whose weeks are no empty range has a block
\* if and only if it has a VEVENT.
C14_Original ==
    (pc = "ical_done" /\ ical_ret = "output_file" /\ png_file.exists) =>
        \A p \in Positions :
            LET e == EntryAt(p[1], p[2])
                span == ClockMinutes(e.time)
                r == RangeOfWeeks(e.weeks)
                drawn == PatchesOf(p[1], p[2]) # <<>>
                exported == ComponentsOf(p[1], p[2]) # <<>>
            IN  /\ (~IsWeekday(timetable[p[1]].day) \/ ~HasCourse(e) \/ span = <<>>) =>
                      ~drawn /\ ~exported
                /\ (span # <<>> /\ MeetsWindow(span) /\ (r = <<>> \/ r[1] <= r[2])) =>
                      (drawn <=> exported)

\* the time fields of the timetables that match the time pattern with an hour
\* above 23
OverflowTime(time) == time = t25to26

\* the file exists only once every entry of the recognised days has been
\* processed and holds what was collected; a failed export leaves no file
ExportAllOrNothing ==
    /\ ics_file.exists =>
          /\ pc = "ical_done"
          /\ ical_ret = "output_file"
          /\ ics_file.components = cal
          /\ \A p \in Positions : IsWeekday(timetable[p[1]].day) => IcalProcessed(p[1], p[2])
    /\ ical_ret = "None" => ~ics_file.exists
    /\ \A p \in Positions :
          OverflowTime(EntryAt(p[1], p[2]).time) =>
             /\ ComponentsOf(p[1], p[2]) = <<>>
             /\ \A i \in 1..Len(log) : log[i] # TimeWarning(EntryAt(p[1], p[2]).time)

ExportAborted ==
    /\ ical_ret = "None"
    /\ ~ics_file.exists
    /\ log[Len(log)].level = "ERROR"

\* C20 as stated: the export is all-or-nothing, and whenever the timetable
\* holds an entry whose time matches with an hour above 23 the export ends
\* with None and without a file.
C20_Original ==
    /\ ExportAllOrNothing
    /\ (pc = "ical_done" /\ \E p \in Positions : OverflowTime(EntryAt(p[1], p[2]).time)) =>
          ExportAborted

\* C20 amended: the export is all-or-nothing, and whenever the timetable holds
\* an entry with a course code, under a recognised day, whose time matches
\* with an hour above 23, the export ends with None and without a file; the
\* entry gets no warning about its time.  (Such an entry without a course code
\* or under an unrecognised key is skipped before its time is looked at.)
C20_AllOrNothing ==
    /\ ExportAllOrNothing
    /\ (pc = "ical_done" /\ \E p \in Positions :
                               /\ IsWeekday(timetable[p[1]].day)
                               /\ HasCourse(EntryAt(p[1], p[2]))
                               /\ OverflowTime(EntryAt(p[1], p[2]).time)) =>
          ExportAborted

\* "8:30 - 18:30" and then "25:00 - 26:00" on a Wednesday: the VEVENT of the
\* first entry was made, the export ended at the second one without a file
C20_Witness ==
    /\ pc = "ical_done"
    /\ Len(timetable) = 1
    /\ timetable[1].day = tWednesday
    /\ Len(timetable[1].events) = 2
    /\ timetable[1].events[1].time = t830to1830
    /\ timetable[1].events[2].time = t25to26
    /\ HasCourse(timetable[1].events[2])
    /\ Len(cal) = 1
    /\ IcalFaultedAt(1, 2)
    /\ log[Len(log)].about = <<"ValueError">>
    /\ ~ics_file.exists

(***************************************************************************)
(* Properties of main and of the browser collaborator.                     *)
(***************************************************************************)
InCalls(name) == \E i \in 1..Len(calls) : calls[i] = name

CountCalls(name) == Cardinality({i \in 1..Len(calls) : calls[i] = name})

IsBrowserStep(name) == \E k \in 1..6 : BrowserSteps[k] = name

\* a browser step has failed
StepFailed == \E i \in 1..Len(log) : log[i].level = "ERROR" /\ IsBrowserStep(log[i].text)

Returned == pc = "main_done"

FatalStep ==
    \/ StepFailed
    \/ result.kind = "error"
    \/ args.export_calendar /\ args.semester_start = NoValue
    \/ args.export_calendar /\ args.semester_start = SlashDate

\* C16 as stated: main returns 0 or 1, and 1 exactly when a browser step
\* failed, extraction returned an error, the calendar export was asked for
\* without a start date, or the start date has the wrong format.
C16_Original ==
    Returned =>
        /\ exit_code \in {0, 1}
        /\ exit_code = 1 <=> FatalStep

\* the login, the extraction, the JSON save or the image generation has
\* begun
WorkBegun ==
    \/ InCalls("launch")
    \/ \E k \in 1..6 : InCalls(BrowserSteps[k])
    \/ InCalls("scrape_timetable")
    \/ InCalls("save_timetable")
    \/ InCalls("generate_timetable_image")

\* C17 as stated: in a run that asks for the calendar export without a start
\* date, no login, extraction, JSON save or image generation ever happens.
C17_Original ==
    (args.export_calendar /\ args.semester_start = NoValue) => ~WorkBegun

\* the first value of the sequence that is not absent, NoValue if there is none
RECURSIVE FirstGiven(_)
FirstGiven(values) ==
    IF values = <<>> THEN NoValue
    ELSE IF Head(values) # NoValue THEN Head(values)
    ELSE FirstGiven(Tail(values))

\* what the credentials file supplies
FromFile(field) ==
    IF args.creds_file /\ creds_data.readable THEN creds_data[field] ELSE NoValue

\* C18 as stated: each credential is the flag, else the value of the file,
\* else the environment variable, and main prompts for it exactly when none
\* of the three supplies a value.
C18_Original ==
    pc # "main_start" =>
        LET u == FirstGiven(<<args.username, FromFile("username"), environ.UL_USERNAME>>)
            p == FirstGiven(<<args.password, FromFile("password"), environ.UL_PASSWORD>>)
        IN  /\ username = IF u # NoValue THEN u ELSE "prompt-user"
            /\ password = IF p # NoValue THEN p ELSE "prompt-pass"
            /\ InCalls("input") <=> u = NoValue
            /\ InCalls("getpass") <=> p = NoValue

\* the calls of the consumers
ConsumerCalled ==
    \/ InCalls("save_timetable")
    \/ InCalls("generate_timetable_image")
    \/ InCalls("export_to_ical")
    \/ InCalls("display_timetable")

\* C19: the browser steps run in the order of BrowserSteps; scrape_timetable
\* is called at most once, and only when all six have gone through; a
\* consumer is called only after scrape_timetable; and once a step has
\* failed main has returned 1 with no call of scrape_timetable or of a
\* consumer and no output file.
C19_ScrapeAfterSteps ==
    LET steps == SelectSeq(calls, IsBrowserStep)
    IN  /\ steps = SubSeq(BrowserSteps, 1, Len(steps))
        /\ CountCalls("scrape_timetable") <= 1
        /\ InCalls("scrape_timetable") =>
              /\ steps = BrowserSteps
              /\ ~StepFailed
              /\ \A i, j \in 1..Len(calls) :
                    (IsBrowserStep(calls[i]) /\ calls[j] = "scrape_timetable") => i < j
        /\ ConsumerCalled => InCalls("scrape_timetable")
        /\ \A i, j \in 1..Len(calls) :
              (calls[i] = "scrape_timetable"
                 /\ calls[j] \in {"save_timetable", "generate_timetable_image",
                                  "export_to_ical", "display_timetable"}) => i < j
        /\ StepFailed =>
              /\ Returned
              /\ exit_code = 1
              /\ ~InCalls("scrape_timetable")
              /\ ~ConsumerCalled
              /\ ~json_file.exists /\ ~png_file.exists /\ ~ics_file.exists

\* a run through all six steps, the extraction and every consumer
C19_Witness ==
    /\ Returned
    /\ exit_code = 0
    /\ calls = <<"launch", "goto", "fill_username", "fill_password", "click_login",
                 "click_link", "content", "scrape_timetable", "save_timetable",
                 "generate_timetable_image", "export_to_ical", "display_timetable">>
    /\ json_file.exists
    /\ png_file.exists
    /\ ics_file.exists

(***************************************************************************)
(* The week range of the calendar export.                                  *)
(***************************************************************************)
\* the day of the first week an entry of day d falls on
FirstWeekDay(d) == semester_start_date + WeekdayOffset(timetable[d].day)

\* C21: an entry the exporter has processed, with a course code, a time of
\* day and a weeks field whose first "digits-digits" is a-b, has exactly
\* max(0, b - a + 1) VEVENTs, none in particular where a > b (also where a-b
\* is a year standing before the real range); none of them is the weekly
\* recurrence with count 12; and the VEVENT of week 0 starts 7 days before
\* the day of week 1.
C21_RangeCount ==
    \A p \in Positions :
        LET e == EntryAt(p[1], p[2])
            t == TimeOfDay(e.time)
            r == RangeOfWeeks(e.weeks)
            mine == ComponentsOf(p[1], p[2])
        IN  (IcalProcessed(p[1], p[2]) /\ HasCourse(e) /\ t # <<>> /\ r # <<>>) =>
               /\ Len(mine) = Max(0, r[2] - r[1] + 1)
               /\ r[1] > r[2] => mine = <<>>
               /\ \A i \in 1..Len(mine) :
                     /\ mine[i].vevent.rrule # DefaultCount
                     /\ mine[i].vevent.description.week = r[1] + i - 1
                     /\ mine[i].vevent.description.week = 0 =>
                            mine[i].vevent.dtstart.day = FirstWeekDay(p[1]) - 7
                     /\ mine[i].vevent.description.week = 1 =>
                            mine[i].vevent.dtstart.day = FirstWeekDay(p[1])

\* a written calendar for "2024-25 Weeks 1-12" (no VEVENT) or "Weeks 12-1"
\* (no VEVENT) beside "Weeks 0-1" on a Wednesday (two VEVENTs, the first one
\* 7 days before the second)
C21_Witness ==
    /\ pc = "ical_done"
    /\ ical_ret = "output_file"
    /\ \E p \in Positions, q \in Positions :
          /\ IsWeekday(timetable[p[1]].day)
          /\ EntryAt(p[1], p[2]).weeks = tYearWeeks
          /\ ComponentsOf(p[1], p[2]) = <<>>
          /\ timetable[q[1]].day = tWednesday
          /\ EntryAt(q[1], q[2]).weeks = tWeeks0to1
          /\ Len(ComponentsOf(q[1], q[2])) = 2
          /\ ComponentsOf(q[1], q[2])[1].vevent.dtstart.day = semester_start_date + 2 - 7
          /\ ComponentsOf(q[1], q[2])[2].vevent.dtstart.day = semester_start_date + 2
          /\ Len(ics_file.components) = 2

(***************************************************************************)
(* The blocks of the image.                                                *)
(***************************************************************************)
\* the entry a block was drawn for
EntryOfBlock(b) == EntryAt(KeyIndex(b.origin.day), b.origin.index)

BlocksInWindow ==
    \A i \in 1..Len(patches) :
        LET span == ClockMinutes(EntryOfBlock(patches[i]).time)
        IN  /\ span # <<>>
            /\ patches[i].start_time \in 540..1080
            /\ patches[i].end_time \in 540..1080
            /\ patches[i].start_time <= patches[i].end_time <=> span[1] <= span[2]

\* the image of "17:00 - 10:00" is saved with a block from 17:00 to 10:00
ReversedBlockSaved ==
    /\ png_file.exists
    /\ \E i \in 1..Len(png_file.components) :
          /\ png_file.components[i].start_time = 17 * 60
          /\ png_file.components[i].end_time = 10 * 60

====
